---------------------------- MODULE Spec2Model ----------------------------
(***************************************************************************)
(* Scheduling core of browsergrid: work pools, workers, sessions, the      *)
(* session event stream, the claim endpoint and the WorkPoolManager.       *)
(*                                                                         *)
(* Every HTTP handler and manager method is a sequence of database round   *)
(* trips.  Requests overlap, so a handler that reads rows, computes and    *)
(* commits later is modelled as one action per round trip that another     *)
(* request can observe between: the rows it read are kept in the request's *)
(* locals (the ORM identity map) until its commit.  A handler whose writes *)
(* do not depend on what it read is a single action.                       *)
(*                                                                         *)
(* Identifiers are UUIDs.  The bounded id sets stand for distinct UUIDs    *)
(* handed out in order.  A worker is created under the id its request      *)
(* carries, so the id of a deleted worker can be registered again; the id  *)
(* of a deleted pool is not sent again.                                    *)
(***************************************************************************)
EXTENDS Integers, Sequences, FiniteSets, TLC

\* ------------------------------------------------------------------ bounds
MaxPools == 2
MaxWorkers == 2
MaxSessions == 2
MaxEvents == 2
MaxCapacity == 2
MaxTime == 8
MaxInflight == 2
\* The pools and sessions of the specification that runs every status writer.
StatusPools == 1
StatusSessions == 1
MaxNames == 2
MaxSent == 3
MaxEmitted == 10
MaxIps == 2
MaxRequestsPerMinute == 2
MaxLog == 6
MaxPopulate == 2
MaxReady == 3
MaxClientTime == 32
UuidLen == 2
MaxHexDigit == 1
ContainerIdLen == 1
MaxContainers == 2
MaxRunning == 3
MaxDockerTasks == 2
MinFleetWorkers == 1
MaxFleetWorkers == 2
MaxFleetIds == 2
MaxFleetContainers == 1
MaxFleetRunning == 1
MaxFleetTime == 2
MaxDelay == 1
MaxLimit == 2
MaxFleetTasks == 2
MaxWorkerTypes == 1

NULL == 0
NoTime == -1

PoolIds == 1..MaxPools
PoolWriters == 1..MaxInflight
WorkerIds == 1..MaxWorkers
SessionIds == 1..MaxSessions

\* ------------------------------------------------------------------ enums
SessionStatus ==
    {"pending", "starting", "running", "completed", "failed", "expired",
     "crashed", "timed_out", "terminated"}

SessionEventType ==
    {"session_created", "session_assigned", "session_starting", "browser_started",
     "session_idle", "session_active", "session_completed", "session_crashed",
     "session_timed_out", "session_terminated"}

WorkerStatus == {"offline", "online", "busy", "draining", "failed"}

WorkPoolStatus == {"active", "paused", "draining", "inactive"}

\* The statuses the specification calls terminal (rank 3 of the hierarchy).
TerminalStatuses ==
    {"completed", "failed", "expired", "crashed", "timed_out", "terminated"}

\* Values the requests of the model carry.
EventInputs == {"session_starting", "browser_started", "session_idle",
                "session_completed"}
StatusInputs == {"pending", "completed", "crashed"}
WorkerStatusInputs == {"offline", "online"}
\* The heartbeats of the agent (online with no load, busy with some, offline
\* on shutdown) and one whose load is beyond any capacity.
HeartbeatInputs == {<<"online", 0>>, <<"offline", 0>>,
                    <<"busy", MaxCapacity + 1>>}
ProviderOutcomes == {"started", "no_port", "exception"}

\* ------------------------------------------------ session configuration
\* A nullable value (Optional[...] in the schemas, a nullable column in the
\* tables): None, or Some(v).
None == <<>>
Some(v) == <<v>>

\* ResourceLimits: the schema of a session's limits; a field the body leaves
\* out takes the schema default.
ResourceLimits(body) ==
    [cpu |-> body.cpu,
     memory |-> body.memory,
     timeout_minutes |-> IF body.timeout_minutes = None THEN Some(30)
                         ELSE body.timeout_minutes]

\* ScreenConfig(): the screen of a body that names none.
ScreenConfig == [width |-> 1280, height |-> 720, dpi |-> 96, scale |-> 1]

\* SessionCreate: validation of a request body; each field the client left
\* out (None) takes the default of the schema.
SessionCreate(body) ==
    [browser |-> IF body.browser = None THEN "chrome" ELSE body.browser[1],
     version |-> IF body.version = None THEN "latest" ELSE body.version[1],
     headless |-> IF body.headless = None THEN FALSE ELSE body.headless[1],
     operating_system |-> IF body.operating_system = None THEN "linux"
                          ELSE body.operating_system[1],
     screen |-> IF body.screen = None THEN ScreenConfig ELSE body.screen[1],
     proxy |-> body.proxy,
     resource_limits |->
         IF body.resource_limits = None
         THEN ResourceLimits([cpu |-> None, memory |-> None,
                              timeout_minutes |-> None])
         ELSE ResourceLimits(body.resource_limits[1]),
     environment |-> IF body.environment = None THEN {}
                     ELSE body.environment[1]]

\* Session.create_from_schema: the configuration columns of the new row.
create_from_schema(session_create) ==
    [browser |-> Some(session_create.browser),
     version |-> Some(session_create.version),
     headless |-> Some(session_create.headless),
     operating_system |-> Some(session_create.operating_system),
     screen |-> Some(session_create.screen),
     proxy |-> session_create.proxy,
     resource_limits |-> Some(session_create.resource_limits),
     environment |-> Some(session_create.environment)]

\* Truth value of a column holding an enum member or a dict that always has
\* keys: false only for NULL.
Truthy(v) == v # None

\* Truth value of a column holding a free dict: false for NULL and for {}.
TruthyDict(v) == v # None /\ v[1] # {}

\* _apply_pool_defaults with the proxy filled for a session that has an
\* environment instead of for a session that has no proxy.
apply_pool_defaults_proxy_by_environment(session, pool) ==
    [session EXCEPT
        !.browser = IF Truthy(pool.default_browser) /\ ~Truthy(@)
                    THEN pool.default_browser ELSE @,
        !.version = IF Truthy(pool.default_browser_version) /\ ~Truthy(@)
                    THEN pool.default_browser_version ELSE @,
        !.headless = IF pool.default_headless # None /\ @ = None
                     THEN pool.default_headless ELSE @,
        !.operating_system =
            IF Truthy(pool.default_operating_system) /\ ~Truthy(@)
            THEN pool.default_operating_system ELSE @,
        !.screen = IF Truthy(pool.default_screen) /\ ~Truthy(@)
                   THEN pool.default_screen ELSE @,
        !.proxy = IF Truthy(pool.default_proxy)
                     /\ TruthyDict(session.environment)
                  THEN pool.default_proxy ELSE @,
        !.resource_limits =
            IF Truthy(pool.default_resource_limits) /\ ~Truthy(@)
            THEN pool.default_resource_limits ELSE @,
        !.environment = IF TruthyDict(pool.default_environment)
                           /\ ~TruthyDict(@)
                        THEN pool.default_environment ELSE @]

\* _apply_pool_defaults: the session row after the defaults of the pool are
\* applied; a field is written only when the pool's default is truthy (for
\* headless: not None) and the session's value is falsy (for headless: None).
apply_pool_defaults(session, pool) ==
    [session EXCEPT
        !.browser = IF Truthy(pool.default_browser) /\ ~Truthy(@)
                    THEN pool.default_browser ELSE @,
        !.version = IF Truthy(pool.default_browser_version) /\ ~Truthy(@)
                    THEN pool.default_browser_version ELSE @,
        !.headless = IF pool.default_headless # None /\ @ = None
                     THEN pool.default_headless ELSE @,
        !.operating_system =
            IF Truthy(pool.default_operating_system) /\ ~Truthy(@)
            THEN pool.default_operating_system ELSE @,
        !.screen = IF Truthy(pool.default_screen) /\ ~Truthy(@)
                   THEN pool.default_screen ELSE @,
        !.proxy = IF Truthy(pool.default_proxy) /\ ~Truthy(@)
                  THEN pool.default_proxy ELSE @,
        !.resource_limits =
            IF Truthy(pool.default_resource_limits) /\ ~Truthy(@)
            THEN pool.default_resource_limits ELSE @,
        !.environment = IF TruthyDict(pool.default_environment)
                           /\ ~TruthyDict(@)
                        THEN pool.default_environment ELSE @]

\* Request bodies of POST /sessions: nothing set; only the browser set; every
\* field set; an empty environment and headless false set explicitly.
EmptyBody ==
    [browser |-> None, version |-> None, headless |-> None,
     operating_system |-> None, screen |-> None, proxy |-> None,
     resource_limits |-> None, environment |-> None]

ChromeBody == [EmptyBody EXCEPT !.browser = Some("chrome")]

FullBody ==
    [browser |-> Some("firefox"), version |-> Some("stable"),
     headless |-> Some(TRUE), operating_system |-> Some("linux"),
     screen |-> Some([ScreenConfig EXCEPT !.width = 1920, !.height = 1080]),
     proxy |-> Some([proxy_url |-> "http://own", proxy_username |-> None,
                     proxy_password |-> None]),
     resource_limits |-> Some([cpu |-> None, memory |-> Some("4G"),
                               timeout_minutes |-> None]),
     environment |-> Some({<<"TZ", "CET">>})]

BareBody ==
    [EmptyBody EXCEPT !.headless = Some(FALSE), !.environment = Some({})]

BodyInputs == {EmptyBody, ChromeBody, FullBody, BareBody}

\* Defaults of a POST /pools body: none; a firefox pool with a memory limit;
\* a pool with a default for every other field.
NoDefaults ==
    [default_browser |-> None, default_browser_version |-> None,
     default_headless |-> None, default_operating_system |-> None,
     default_screen |-> None, default_proxy |-> None,
     default_resource_limits |-> None, default_environment |-> None]

FirefoxDefaults ==
    [NoDefaults EXCEPT
        !.default_browser = Some("firefox"),
        !.default_resource_limits =
            Some([cpu |-> None, memory |-> Some("2G"),
                  timeout_minutes |-> Some(30)])]

RichDefaults ==
    [NoDefaults EXCEPT
        !.default_browser_version = Some("stable"),
        !.default_headless = Some(TRUE),
        !.default_operating_system = Some("linux"),
        !.default_screen = Some(ScreenConfig),
        !.default_proxy = Some([proxy_url |-> "http://pool",
                                proxy_username |-> None,
                                proxy_password |-> None]),
        !.default_environment = Some({<<"TZ", "UTC">>})]

DefaultsInputs == {NoDefaults, FirefoxDefaults, RichDefaults}

\* Pool names: compared for equality only, and numbered. A client that names
\* each pool after the number of pools created so far never repeats a name.
PoolNames == 1..MaxNames
WorkerNames == 1..MaxNames

\* Statuses of a POST /pools body.
PoolStatusInputs == {"active", "paused"}

\* ------------------------------------------------------- event/status utility
NoStatus == "none"

get_status_from_event(event_type) ==
    CASE event_type = "session_created" -> "pending"
      [] event_type = "session_assigned" -> "pending"
      [] event_type = "session_starting" -> "starting"
      [] event_type = "browser_started" -> "running"
      [] event_type = "session_completed" -> "completed"
      [] event_type = "session_crashed" -> "crashed"
      [] event_type = "session_timed_out" -> "timed_out"
      [] event_type = "session_terminated" -> "terminated"
      [] OTHER -> NoStatus

hierarchy(status) ==
    CASE status = "pending" -> 0
      [] status = "starting" -> 1
      [] status = "running" -> 2
      [] status \in TerminalStatuses -> 3
      [] OTHER -> 0

\* A status check that lets every change of rank through.
should_update_status_on_change(current_status, new_status) ==
    hierarchy(new_status) # hierarchy(current_status)

should_update_status(current_status, new_status) ==
    hierarchy(new_status) > hierarchy(current_status)

\* ------------------------------------------------------------------ state
VARIABLES
    pools,      \* work_pools table: id -> row
    workers,    \* workers table: id -> row
    sessions,   \* sessions table: id -> row
    events,     \* session_events table, in insertion order
    nextPool, nextWorker, nextSession,   \* the next unused id of each table
    claim,      \* claim_pending_session requests in flight, per worker id
    resp,       \* the call answered last (claim-session, event): who and what
    ev,         \* create_event request in flight
    uss,        \* update_session_status call in flight
    cs,         \* create_session request in flight
    now,        \* the clock, in minutes
    lastSweep,  \* the time of the liveness sweeper's last pass
    agent,      \* the worker client process: its position and its settings
    pw,         \* work pool create and update requests in flight, per slot
    proc,       \* the worker client's main loop: its position and its fields
    limiter,    \* RateLimitMiddleware: its two dicts, its clock, its answers
    registry,   \* AppRegistry: its fields and the ready() calls it has made
    docker,     \* a DockerWorker: its status, its container map, its stats
    fleet       \* a WorkPool of DockerWorkers: its config, workers, stats, clock

vars == <<pools, workers, sessions, events, nextPool, nextWorker, nextSession,
          claim, resp, ev, uss, cs, now, lastSweep, agent, pw,
          proc, limiter, registry, docker, fleet>>

\* The tables and the requests of the server, the clock and the registering
\* client.
dbvars == <<pools, workers, sessions, events, nextPool, nextWorker,
            nextSession, claim, resp, ev, uss, cs, now, lastSweep, agent, pw>>

IdleClaim == [pc |-> "idle", load |-> 0, pool |-> NULL, sess |-> NULL]
NoResp == [worker |-> NULL, kind |-> "none", claimed |-> FALSE, reason |-> "",
           session_id |-> NULL]
IdleEv == [pc |-> "idle", session_id |-> NULL, event |-> "", status |-> ""]
IdleUss == [pc |-> "idle", session_id |-> NULL, status |-> "", before |-> "",
            worker |-> NULL, load |-> 0]
IdlePw == [pc |-> "idle", op |-> "none", pool |-> NULL, name |-> NULL,
           status |-> "", before |-> [name |-> NULL, status |-> ""],
           answer |-> "none"]
NoAgent == [pc |-> "none", worker_id |-> NULL, work_pool_id |-> NULL,
            current_load |-> 0, requested |-> NULL]
\* BrowsergridWorker.__init__: nothing registered, no session tracked, no
\* request sent yet.  granted keeps the sessions the server has granted the
\* client and the client has not removed from active_sessions, reported the
\* current_load of the heartbeat it sent last.
NoCall == [op |-> "none", session_id |-> NULL, step |-> 0, reason |-> ""]
NoProc == [pc |-> "start", worker_id |-> NULL, current_load |-> 0,
           active_sessions |-> <<>>, order |-> <<>>, running |-> TRUE,
           sent |-> <<>>, checking |-> <<>>, ended |-> {}, pushed |-> <<>>,
           time |-> 0, emitted |-> <<>>, claimed |-> NULL, call |-> NoCall,
           granted |-> {}, reported |-> 0]
\* RateLimitMiddleware.__init__: both dicts empty; no request answered yet.
NoLimiter == [requests |-> [ip \in {} |-> <<>>], blocked |-> [ip \in {} |-> 0],
              time |-> 0, log |-> <<>>]
\* AppRegistry.__init__: no app config, nothing ready.  calls counts the
\* ready() calls each app config object has received, populated the calls of
\* populate() and invoked those of AppRegistry.ready().
NoRegistry == [app_configs |-> <<>>, apps_ready |-> FALSE,
               ready_called |-> FALSE, calls |-> <<>>, populated |-> 0,
               invoked |-> 0]
\* DockerWorker.__init__: OFFLINE, no client, no container tracked, stats of
\* zero running containers.
NoDocker == [status |-> "offline", docker_client |-> FALSE,
             container_map |-> <<>>, running_containers |-> 0]
\* WorkPoolStats(): all counters zero.
NoPoolStats == [worker_count |-> 0, online_workers |-> 0,
                total_running_containers |-> 0,
                utilization_percent |-> <<0, 1>>]
\* No WorkPool built yet; the clock is at 0.
NoFleet == [config |-> None, workers |-> <<>>, removed |-> <<>>, next |-> 1,
            stats |-> NoPoolStats, last_scale_time |-> 0,
            worker_types |-> {}, result |-> None, time |-> 0,
            tasks |-> <<>>]
IdleCs == [pc |-> "idle", session_id |-> NULL, pool |-> NULL,
           body |-> EmptyBody]

EmptyTable == [i \in {} |-> NULL]

Init ==
    /\ pools = EmptyTable
    /\ workers = EmptyTable
    /\ sessions = EmptyTable
    /\ events = <<>>
    /\ nextPool = 1
    /\ nextWorker = 1
    /\ nextSession = 1
    /\ claim = [w \in WorkerIds |-> IdleClaim]
    /\ resp = NoResp
    /\ ev = IdleEv
    /\ uss = IdleUss
    /\ cs = IdleCs
    /\ now = 0
    /\ lastSweep = 0
    /\ agent = NoAgent
    /\ pw = [i \in PoolWriters |-> IdlePw]
    /\ proc = NoProc
    /\ limiter = NoLimiter
    /\ registry = NoRegistry
    /\ docker = NoDocker @@ [config_class |-> "DockerConfig", tasks |-> <<>>]
    /\ fleet = NoFleet

\* The requests in flight: the handlers between two of their round trips.
Inflight ==
    Cardinality({w \in WorkerIds : claim[w].pc # "idle"})
        + (IF ev.pc # "idle" THEN 1 ELSE 0)
        + (IF uss.pc # "idle" THEN 1 ELSE 0)
        + (IF cs.pc # "idle" THEN 1 ELSE 0)

\* A table without the rows of the ids in gone.
Without(table, gone) == [i \in DOMAIN table \ gone |-> table[i]]

\* A table with one more row.
WithRow(table, id, row) ==
    [i \in DOMAIN table \cup {id} |-> IF i = id THEN row ELSE table[i]]


\* ------------------------------------------------------------ foreign keys
\* sessions.work_pool_id without an ON DELETE rule that is applied.
PoolRefsKept(table, gonePools) == table

\* sessions.work_pool_id: ON DELETE SET NULL.
PoolRefsNulled(table, gonePools) ==
    [s \in DOMAIN table |->
        IF table[s].work_pool_id \in gonePools
        THEN [table[s] EXCEPT !.work_pool_id = NULL]
        ELSE table[s]]

\* sessions.worker_id: ON DELETE SET NULL.
WorkerRefsNulled(table, goneWorkers) ==
    [s \in DOMAIN table |->
        IF table[s].worker_id \in goneWorkers
        THEN [table[s] EXCEPT !.worker_id = NULL]
        ELSE table[s]]

\* workers.work_pool_id: ON DELETE CASCADE (and the ORM's delete-orphan cascade).
WorkersOfPool(p) == {w \in DOMAIN workers : workers[w].work_pool_id = p}

\* A pool delete whose worker cascade leaves sessions.worker_id as it is.
SessionsAfterPoolDeleteKeepingWorkers(p) == PoolRefsNulled(sessions, {p})

\* The rows left in sessions once pool p and its workers are deleted.
SessionsAfterPoolDelete(p) ==
    WorkerRefsNulled(PoolRefsNulled(sessions, {p}), WorkersOfPool(p))

\* ------------------------------------------------------------ work pools
\* The pools that hold a name.
PoolsNamed(name) == {p \in DOMAIN pools : pools[p].name = name}

\* create_work_pool with no other pool request between its name query and its
\* commit; a taken name is answered 409 and nothing is written.
create_work_pool(name, status, defaults) ==
    /\ nextPool <= MaxPools
    /\ PoolsNamed(name) = {}
    /\ pools' = WithRow(pools, nextPool,
                        [name |-> name, status |-> status] @@ defaults)
    /\ nextPool' = nextPool + 1
    /\ UNCHANGED <<workers, sessions, events, nextWorker, nextSession,
                   claim, resp, ev, uss, cs, now, lastSweep,
                   agent, pw,
                   proc, limiter, registry, docker, fleet>>

\* A pool request as its handler holds it: what it asks for and, for an
\* update, the name and status of the row as loaded.
PoolRequest(op, p, name, status) ==
    [IdlePw EXCEPT !.op = op, !.pool = p, !.name = name, !.status = status,
                   !.before = IF p \in DOMAIN pools
                              THEN [name |-> pools[p].name,
                                    status |-> pools[p].status]
                              ELSE @]

\* The answer of a pool request, kept with the request in its slot after the
\* request ended.
PoolAnswer(request, code) == [request EXCEPT !.pc = "idle", !.answer = code]

\* The create requests that passed the name query and have not committed.
CreatesInFlight == {i \in PoolWriters : pw[i].pc = "insert"}

\* create_work_pool, its name query: a pool of that name is answered 409.
create_work_pool_begin(i, name, status) ==
    /\ pw[i].pc = "idle"
    /\ nextPool + Cardinality(CreatesInFlight) <= MaxPools
    /\ pw' = [pw EXCEPT ![i] =
                 IF PoolsNamed(name) # {}
                 THEN PoolAnswer(PoolRequest("create", NULL, name, status),
                                 "http409")
                 ELSE [PoolRequest("create", NULL, name, status)
                          EXCEPT !.pc = "insert"]]
    /\ UNCHANGED <<pools, workers, sessions, events, nextPool, nextWorker,
                   nextSession, claim, resp, ev, uss, cs, now, lastSweep,
                   agent,
                   proc, limiter, registry, docker, fleet>>

\* create_work_pool, its commit: the INSERT; work_pools.name is unique, so
\* with the name taken in the meantime the commit raises and nothing is
\* written.
create_work_pool_commit(i) ==
    /\ pw[i].pc = "insert"
    /\ IF PoolsNamed(pw[i].name) # {}
       THEN /\ pw' = [pw EXCEPT ![i] = PoolAnswer(@, "http500")]
            /\ UNCHANGED <<pools, nextPool>>
       ELSE /\ pools' = WithRow(pools, nextPool,
                                [name |-> pw[i].name, status |-> pw[i].status]
                                @@ NoDefaults)
            /\ nextPool' = nextPool + 1
            /\ pw' = [pw EXCEPT ![i] = PoolAnswer(@, "http201")]
    /\ UNCHANGED <<workers, sessions, events, nextWorker, nextSession,
                   claim, resp, ev, uss, cs, now, lastSweep, agent,
                   proc, limiter, registry, docker, fleet>>

\* update_work_pool, its queries: 404 for a pool that does not exist, 409 when
\* the body changes the name to one another pool holds. The body names the
\* pool and may set its status (NoStatus: the body leaves it unset).
update_work_pool_begin(i, p, name, status) ==
    /\ pw[i].pc = "idle"
    /\ pw' = [pw EXCEPT ![i] =
                 IF p \notin DOMAIN pools
                 THEN PoolAnswer(PoolRequest("update", p, name, status),
                                 "http404")
                 ELSE IF name # pools[p].name /\ PoolsNamed(name) # {}
                 THEN PoolAnswer(PoolRequest("update", p, name, status),
                                 "http409")
                 ELSE [PoolRequest("update", p, name, status)
                          EXCEPT !.pc = "update"]]
    /\ UNCHANGED <<pools, workers, sessions, events, nextPool, nextWorker,
                   nextSession, claim, resp, ev, uss, cs, now, lastSweep,
                   agent,
                   proc, limiter, registry, docker, fleet>>

\* The row an update writes: only the attributes whose new value differs from
\* the value the request loaded are part of the UPDATE.
PoolAfterUpdate(row, request) ==
    [row EXCEPT
        !.name = IF request.name # request.before.name
                 THEN request.name ELSE @,
        !.status = IF request.status # NoStatus
                      /\ request.status # request.before.status
                   THEN request.status ELSE @]

\* update_work_pool, its commit: the UPDATE; it raises, and nothing is
\* written, when the row is gone or another pool holds the new name by now.
update_work_pool_commit(i) ==
    /\ pw[i].pc = "update"
    /\ IF \/ pw[i].pool \notin DOMAIN pools
          \/ /\ pw[i].name # pw[i].before.name
             /\ PoolsNamed(pw[i].name) \ {pw[i].pool} # {}
       THEN /\ pw' = [pw EXCEPT ![i] = PoolAnswer(@, "http500")]
            /\ UNCHANGED pools
       ELSE /\ pools' = [pools EXCEPT
                            ![pw[i].pool] = PoolAfterUpdate(@, pw[i])]
            /\ pw' = [pw EXCEPT ![i] = PoolAnswer(@, "http200")]
    /\ UNCHANGED <<workers, sessions, events, nextPool, nextWorker,
                   nextSession, claim, resp, ev, uss, cs, now, lastSweep,
                   agent,
                   proc, limiter, registry, docker, fleet>>

\* The delete guard of both delete handlers counts these statuses only.
DeleteGuardStatuses == {"pending", "running"}

ActiveSessionsOfPool(p) ==
    {s \in DOMAIN sessions :
        /\ sessions[s].work_pool_id = p
        /\ sessions[s].status \in DeleteGuardStatuses}

delete_work_pool(p, force) ==
    /\ p \in DOMAIN pools
    /\ force \/ ActiveSessionsOfPool(p) = {}
    /\ pools' = Without(pools, {p})
    /\ workers' = Without(workers, WorkersOfPool(p))
    /\ sessions' = SessionsAfterPoolDelete(p)
    /\ UNCHANGED <<events, nextPool, nextWorker, nextSession,
                   claim, resp, ev, uss, cs, now, lastSweep,
                   agent, pw,
                   proc, limiter, registry, docker, fleet>>

\* ------------------------------------------------------------ workers
\* The workers of a pool that hold a name.
WorkersNamed(name, p) ==
    {w \in DOMAIN workers : /\ workers[w].name = name
                            /\ workers[w].work_pool_id = p}

\* WorkerCreate.id: the id the client sends, or uuid4() when it sends none.
\* The ids no row of the table has: nextWorker, which was never used and
\* stands for every such id, and the ids of rows that were deleted.
\* nextWorker goes up with every row that is created, so that MaxWorkers
\* bounds the rows created, under new ids and under ids used before.
NewWorkerIds ==
    {w \in 1..nextWorker : w \notin DOMAIN workers}

\* create_worker: a missing pool is answered 404 and a name taken within the
\* pool 409, and nothing is written; otherwise the row is inserted under the
\* id of the request.  An id the table holds fails the commit on the primary
\* key, and nothing is written either.
create_worker(id, name, p, status, capacity) ==
    /\ nextWorker <= MaxWorkers
    /\ id \in NewWorkerIds
    /\ p \in DOMAIN pools
    /\ WorkersNamed(name, p) = {}
    /\ workers' = WithRow(workers, id,
                          [name |-> name,
                           work_pool_id |-> p, status |-> status,
                           capacity |-> capacity, current_load |-> 0,
                           last_heartbeat |-> NoTime, created_at |-> now])
    /\ nextWorker' = nextWorker + 1
    /\ UNCHANGED <<pools, sessions, events, nextPool, nextSession,
                   claim, resp, ev, uss, cs, now, lastSweep,
                   agent, pw,
                   proc, limiter, registry, docker, fleet>>

\* The telemetry columns (cpu, memory, disk, ip) are written as well; nothing
\* reads them, and they are left out of the worker row.
update_worker_heartbeat(w, status, load) ==
    /\ w \in DOMAIN workers
    /\ workers' = [workers EXCEPT ![w].status = status,
                                  ![w].current_load = load,
                                  ![w].last_heartbeat = now]
    /\ UNCHANGED <<pools, sessions, events, nextPool, nextWorker, nextSession,
                   claim, resp, ev, uss, cs, now, lastSweep,
                   agent, pw,
                   proc, limiter, registry, docker, fleet>>

ActiveSessionsOfWorker(w) ==
    {s \in DOMAIN sessions :
        /\ sessions[s].worker_id = w
        /\ sessions[s].status \in DeleteGuardStatuses}

delete_worker(w, force) ==
    /\ w \in DOMAIN workers
    /\ force \/ ActiveSessionsOfWorker(w) = {}
    /\ workers' = Without(workers, {w})
    /\ sessions' = WorkerRefsNulled(sessions, {w})
    /\ UNCHANGED <<pools, events, nextPool, nextWorker, nextSession,
                   claim, resp, ev, uss, cs, now, lastSweep,
                   agent, pw,
                   proc, limiter, registry, docker, fleet>>

\* ------------------------------------------------------------ claim-session
ActiveWorkerStatuses == {"online", "busy"}

\* A worker query without the status filter.
IsKnownWorker(w) == w \in DOMAIN workers

\* The worker query of claim_pending_session: the row exists and is active.
IsActiveWorker(w) ==
    /\ w \in DOMAIN workers
    /\ workers[w].status \in ActiveWorkerStatuses

\* A pending-session query without the pool filter.
PendingSessionsOfAnyPool(p) ==
    {s \in DOMAIN sessions :
        /\ sessions[s].status = "pending"
        /\ sessions[s].worker_id = NULL}

\* The rows the pending-session query matches; .first() returns one of them
\* (the query has no ORDER BY).
PendingSessionsOf(p) ==
    {s \in DOMAIN sessions :
        /\ sessions[s].work_pool_id = p
        /\ sessions[s].status = "pending"
        /\ sessions[s].worker_id = NULL}

\* The answers to a claim-session call of worker w: an HTTP error, a body
\* with session_claimed False and a reason, a body with session_claimed True.
Http(w, code) ==
    [worker |-> w, kind |-> code, claimed |-> FALSE, reason |-> "",
     session_id |-> NULL]
NotClaimed(w, reason) ==
    [worker |-> w, kind |-> "ok", claimed |-> FALSE, reason |-> reason,
     session_id |-> NULL]
Claimed(w, s) ==
    [worker |-> w, kind |-> "ok", claimed |-> TRUE, reason |-> "",
     session_id |-> s]

\* A capacity check that lets a full worker through.
OverCapacity(w) == workers[w].current_load > workers[w].capacity

\* The capacity check of claim_pending_session.
AtCapacity(w) == workers[w].current_load >= workers[w].capacity

\* First round trip: the worker query, the 404 and the capacity check.
claim_begin(w) ==
    /\ claim[w].pc = "idle"
    /\ Inflight < MaxInflight
    /\ IF ~IsActiveWorker(w)
       THEN /\ resp' = Http(w, "http404")
            /\ UNCHANGED claim
       ELSE IF AtCapacity(w)
       THEN /\ resp' = NotClaimed(w, "Worker at capacity")
            /\ UNCHANGED claim
       ELSE /\ claim' = [claim EXCEPT ![w] =
                           [pc |-> "worker", load |-> workers[w].current_load,
                            pool |-> workers[w].work_pool_id, sess |-> NULL]]
            /\ UNCHANGED resp
    /\ UNCHANGED <<pools, workers, sessions, events, nextPool, nextWorker,
                   nextSession, ev, uss, cs, now, lastSweep,
                   agent, pw,
                   proc, limiter, registry, docker, fleet>>

\* Second round trip: the pending-session query.
claim_select(w) ==
    /\ claim[w].pc = "worker"
    /\ IF PendingSessionsOf(claim[w].pool) = {}
       THEN /\ resp' = NotClaimed(w, "No pending sessions")
            /\ claim' = [claim EXCEPT ![w] = IdleClaim]
       ELSE /\ \E s \in PendingSessionsOf(claim[w].pool) :
                 claim' = [claim EXCEPT ![w].pc = "session", ![w].sess = s]
            /\ UNCHANGED resp
    /\ UNCHANGED <<pools, workers, sessions, events, nextPool, nextWorker,
                   nextSession, ev, uss, cs, now, lastSweep,
                   agent, pw,
                   proc, limiter, registry, docker, fleet>>

\* The commit: both UPDATEs, of the values computed from the rows as read.
\* With the worker row gone the flush fails and the request ends in a 500.
claim_commit(w) ==
    /\ claim[w].pc = "session"
    /\ IF w \in DOMAIN workers
       THEN /\ sessions' = [sessions EXCEPT ![claim[w].sess].worker_id = w]
            /\ workers' = [workers EXCEPT ![w].current_load = claim[w].load + 1]
            /\ resp' = Claimed(w, claim[w].sess)
       ELSE /\ resp' = Http(w, "http500")
            /\ UNCHANGED <<sessions, workers>>
    /\ claim' = [claim EXCEPT ![w] = IdleClaim]
    /\ UNCHANGED <<pools, events, nextPool, nextWorker, nextSession,
                   ev, uss, cs, now, lastSweep,
                   agent, pw,
                   proc, limiter, registry, docker, fleet>>

\* ------------------------------------------------------------ placement
AvailableWorkersOf(p) ==
    {w \in DOMAIN workers :
        /\ workers[w].work_pool_id = p
        /\ workers[w].status \in ActiveWorkerStatuses
        /\ workers[w].current_load < workers[w].capacity}

\* The sessions the score subtracts.
ScoredSessionStatuses == {"pending", "running"}

CurrentSessionsOf(p) ==
    {s \in DOMAIN sessions :
        /\ sessions[s].work_pool_id = p
        /\ sessions[s].status \in ScoredSessionStatuses}

AvailableWorkerWeight == 10

PoolScore(p) ==
    Cardinality(AvailableWorkersOf(p)) * AvailableWorkerWeight
        - Cardinality(CurrentSessionsOf(p))

\* The compatibility test of the loop: a pool that names a default browser or
\* operating system takes only sessions of that browser and operating system.
Compatible(s, p) ==
    /\ ~(Truthy(pools[p].default_browser)
          /\ pools[p].default_browser # sessions[s].browser)
    /\ ~(Truthy(pools[p].default_operating_system)
          /\ pools[p].default_operating_system # sessions[s].operating_system)

\* The pools the loop over the active pools can score for session s.
CandidatePools(s) ==
    {p \in DOMAIN pools :
        /\ pools[p].status = "active"
        /\ Compatible(s, p)
        /\ AvailableWorkersOf(p) # {}
        /\ PoolScore(p) > 0 - 1}

\* The loop keeps the first pool of the highest score; the query that lists
\* the active pools has no ORDER BY, so that is any pool of the highest score.
BestPools(s) ==
    {p \in CandidatePools(s) :
        \A q \in CandidatePools(s) : PoolScore(q) <= PoolScore(p)}

\* assign_session_to_work_pool with a requested pool looked up by id alone.
PlacementsOfAnyStatus(s, requested) ==
    IF sessions[s].status # "pending" THEN {}
    ELSE IF requested # NULL
    THEN {p \in DOMAIN pools : p = requested}
    ELSE BestPools(s)

\* The pools assign_session_to_work_pool can bind session s to ({}: it returns
\* False and binds nothing).
PlacementsOf(s, requested) ==
    IF sessions[s].status # "pending" THEN {}
    ELSE IF requested # NULL
    THEN {p \in DOMAIN pools : p = requested /\ pools[p].status = "active"}
    ELSE BestPools(s)

\* ------------------------------------------------------------ create_session
\* First commit: the session row is inserted.
create_session_insert(requested, body) ==
    /\ cs.pc = "idle"
    /\ Inflight < MaxInflight
    /\ nextSession <= MaxSessions
    /\ sessions' = WithRow(sessions, nextSession,
                           [status |-> "pending", work_pool_id |-> NULL,
                            worker_id |-> NULL]
                           @@ create_from_schema(SessionCreate(body)))
    /\ nextSession' = nextSession + 1
    /\ cs' = [pc |-> "created", session_id |-> nextSession,
              pool |-> requested, body |-> body]
    /\ UNCHANGED <<pools, workers, events, nextPool, nextWorker,
                   claim, resp, ev, uss, now, lastSweep,
                   agent, pw,
                   proc, limiter, registry, docker, fleet>>

\* assign_session_to_work_pool, called by create_session: the queries and the
\* commit of work_pool_id. The request goes on to a second commit only when
\* _apply_pool_defaults has a field to write.
\* The session row after session.work_pool_id = pool id.
PlacedOnWorker(row, p) ==
    [row EXCEPT !.work_pool_id = p,
                !.worker_id = IF WorkersOfPool(p) = {} THEN NULL
                              ELSE CHOOSE w \in WorkersOfPool(p) : TRUE]

Placed(row, p) == [row EXCEPT !.work_pool_id = p]

assign_session_to_work_pool ==
    /\ cs.pc = "created"
    /\ IF PlacementsOf(cs.session_id, cs.pool) = {}
       THEN /\ UNCHANGED sessions
            /\ cs' = IdleCs
       ELSE \E p \in PlacementsOf(cs.session_id, cs.pool) :
               /\ sessions' =
                      [sessions EXCEPT ![cs.session_id] = Placed(@, p)]
               /\ cs' = IF apply_pool_defaults(sessions[cs.session_id], pools[p])
                            = sessions[cs.session_id]
                         THEN IdleCs
                         ELSE [cs EXCEPT !.pc = "placed", !.pool = p]
    /\ UNCHANGED <<pools, workers, events, nextPool, nextWorker, nextSession,
                   claim, resp, ev, uss, now, lastSweep,
                   agent, pw,
                   proc, limiter, registry, docker, fleet>>

\* The commit of _apply_pool_defaults: the fields it changed are written.
apply_pool_defaults_commit ==
    /\ cs.pc = "placed"
    /\ sessions' =
           IF cs.pool \in DOMAIN pools
           THEN [sessions EXCEPT
                    ![cs.session_id] = apply_pool_defaults(@, pools[cs.pool])]
           ELSE sessions
    /\ cs' = IdleCs
    /\ UNCHANGED <<pools, workers, events, nextPool, nextWorker, nextSession,
                   claim, resp, ev, uss, now, lastSweep,
                   agent, pw,
                   proc, limiter, registry, docker, fleet>>

\* ------------------------------------------------------------ create_event
\* The answer to a POST of an event for session s: 201 with the event row, or
\* the 404 of a session that does not exist.
EventAnswer(s, code) ==
    [worker |-> NULL, kind |-> code, claimed |-> FALSE, reason |-> "",
     session_id |-> s]

\* First round trip: the session query.
create_event_begin(s, e) ==
    /\ ev.pc = "idle"
    /\ Inflight < MaxInflight
    /\ Len(events) < MaxEvents
    /\ IF s \in DOMAIN sessions
       THEN /\ ev' = [pc |-> "session", session_id |-> s, event |-> e,
                      status |-> sessions[s].status]
            /\ UNCHANGED resp
       ELSE /\ resp' = EventAnswer(s, "http404")
            /\ UNCHANGED ev
    /\ UNCHANGED <<pools, workers, sessions, events, nextPool, nextWorker,
                   nextSession, claim, uss, cs, now, lastSweep,
                   agent, pw,
                   proc, limiter, registry, docker, fleet>>

\* An event stream that records an event type once per session.
WithEventOnce(rows, s, e) ==
    IF \E i \in 1..Len(rows) : rows[i] = [session_id |-> s, event |-> e]
    THEN rows
    ELSE Append(rows, [session_id |-> s, event |-> e])

\* The session_events rows after db.add(db_event).
WithEvent(rows, s, e) == Append(rows, [session_id |-> s, event |-> e])

\* The status create_event writes, from the session row as it was read.
StatusAfterEvent(current_status, e) ==
    IF /\ get_status_from_event(e) # NoStatus
       /\ should_update_status(current_status, get_status_from_event(e))
    THEN get_status_from_event(e)
    ELSE current_status

\* The commit: the event row, and the status when the event moves it.
create_event_commit ==
    /\ ev.pc = "session"
    /\ events' = WithEvent(events, ev.session_id, ev.event)
    /\ IF StatusAfterEvent(ev.status, ev.event) # ev.status
       THEN sessions' = [sessions EXCEPT ![ev.session_id].status =
                                            StatusAfterEvent(ev.status, ev.event)]
       ELSE UNCHANGED sessions
    /\ resp' = EventAnswer(ev.session_id, "http201")
    /\ ev' = IdleEv
    /\ UNCHANGED <<pools, workers, nextPool, nextWorker, nextSession,
                   claim, uss, cs, now, lastSweep,
                   agent, pw,
                   proc, limiter, registry, docker, fleet>>

\* ------------------------------------------------------------ delete_event
\* An event row is named by its place in the table.  The rows after
\* db.delete(event): the table without that row.
WithoutEventsOfSession(rows, i) ==
    SelectSeq(rows, LAMBDA row : row.session_id # rows[i].session_id)

WithoutEvent(rows, i) ==
    [j \in 1..(Len(rows) - 1) |-> IF j < i THEN rows[j] ELSE rows[j + 1]]

\* DELETE /events/{event_id}: 404 for an event that does not exist, otherwise
\* the row is deleted and the answer is 204.
delete_event(i) ==
    /\ IF i \in 1..Len(events)
       THEN /\ events' = WithoutEvent(events, i)
            /\ resp' = EventAnswer(events[i].session_id, "http204")
       ELSE /\ resp' = EventAnswer(NULL, "http404")
            /\ UNCHANGED events
    /\ UNCHANGED <<pools, workers, sessions, nextPool, nextWorker,
                   nextSession, claim, ev, uss, cs, now, lastSweep,
                   agent, pw,
                   proc, limiter, registry, docker, fleet>>

\* ------------------------------------------------------------ update_session_status
\* The statuses after which update_session_status looks at the worker's load.
LoadReleasingStatuses == {"completed", "failed", "expired"}

\* The session query and the commit of the status.  before keeps the status the
\* call found, for the properties; the code does not read it.
update_session_status_begin(s, status) ==
    /\ uss.pc = "idle"
    /\ Inflight < MaxInflight
    /\ s \in DOMAIN sessions
    /\ sessions' = [sessions EXCEPT ![s].status = status]
    /\ uss' = IF status \in LoadReleasingStatuses
              THEN [pc |-> "status", session_id |-> s, status |-> status,
                    before |-> sessions[s].status, worker |-> NULL, load |-> 0]
              ELSE IdleUss
    /\ UNCHANGED <<pools, workers, events, nextPool, nextWorker, nextSession,
                   claim, resp, ev, cs, now, lastSweep,
                   agent, pw,
                   proc, limiter, registry, docker, fleet>>

\* After the commit the session row is reloaded for worker_id, then the worker
\* is queried.
update_session_status_worker ==
    /\ uss.pc = "status"
    /\ LET w == sessions[uss.session_id].worker_id
       IN  uss' = IF /\ w # NULL
                     /\ w \in DOMAIN workers
                     /\ workers[w].current_load > 0
                  THEN [uss EXCEPT !.pc = "worker", !.worker = w,
                                   !.load = workers[w].current_load]
                  ELSE IdleUss
    /\ UNCHANGED <<pools, workers, sessions, events, nextPool, nextWorker,
                   nextSession, claim, resp, ev, cs, now, lastSweep,
                   agent, pw,
                   proc, limiter, registry, docker, fleet>>

\* The second commit: the load computed from the worker row as it was read.
update_session_status_commit ==
    /\ uss.pc = "worker"
    /\ IF uss.worker \in DOMAIN workers
       THEN workers' = [workers EXCEPT ![uss.worker].current_load = uss.load - 1]
       ELSE UNCHANGED workers
    /\ uss' = IdleUss
    /\ UNCHANGED <<pools, sessions, events, nextPool, nextWorker, nextSession,
                   claim, resp, ev, cs, now, lastSweep,
                   agent, pw,
                   proc, limiter, registry, docker, fleet>>

\* ------------------------------------------------------------ provision_session
\* Direct provisioning: the container backend starts the browser, starts it
\* without a port mapping, or raises.
StatusAfterProvision(current_status, outcome) ==
    CASE outcome = "started" -> "running"
      [] outcome = "exception" -> "failed"
      [] OTHER -> current_status

\* What provision_session returns for a session with a pool: True after it
\* set RUNNING, False otherwise, with what it logged.
ProvisionAnswer(s, outcome) ==
    [worker |-> NULL,
     kind |-> IF outcome = "started" THEN "provisioned" ELSE "not_provisioned",
     claimed |-> FALSE, reason |-> outcome, session_id |-> s]

provision_session(s, outcome) ==
    /\ s \in DOMAIN sessions
    /\ sessions[s].work_pool_id \in DOMAIN pools
    /\ sessions' = [sessions EXCEPT ![s].status =
                                       StatusAfterProvision(sessions[s].status, outcome)]
    /\ resp' = ProvisionAnswer(s, outcome)
    /\ UNCHANGED <<pools, workers, events, nextPool, nextWorker, nextSession,
                   claim, ev, uss, cs, now, lastSweep,
                   agent, pw,
                   proc, limiter, registry, docker, fleet>>

\* ------------------------------------------------------------ liveness
OfflineAfterMinutes == 5

\* mark_worker_offline, on the worker row: OFFLINE once the last heartbeat is
\* more than five minutes old; a row without a heartbeat is left as it is.
mark_worker_offline(row) ==
    IF /\ row.last_heartbeat # NoTime
       /\ row.last_heartbeat < now - OfflineAfterMinutes
    THEN [row EXCEPT !.status = "offline"]
    ELSE row

\* The liveness sweeper of the specification: a pass calls
\* mark_worker_offline for every worker, and passes are at least SweepInterval
\* minutes apart.  Nothing in the server starts such a task, so nothing makes
\* a pass happen when it is due.
SweepInterval == 1

Sweep ==
    /\ now - lastSweep >= SweepInterval
    /\ workers' = [w \in DOMAIN workers |-> mark_worker_offline(workers[w])]
    /\ lastSweep' = now
    /\ UNCHANGED <<pools, sessions, events, nextPool, nextWorker, nextSession,
                   claim, resp, ev, uss, cs, now, agent, pw,
                   proc, limiter, registry, docker, fleet>>

\* A minute passes.
Tick ==
    /\ now < MaxTime
    /\ now' = now + 1
    /\ UNCHANGED <<pools, workers, sessions, events, nextPool, nextWorker,
                   nextSession, claim, resp, ev, uss, cs, lastSweep,
                   agent, pw,
                   proc, limiter, registry, docker, fleet>>

\* ------------------------------------------------------------ worker client
\* The routes the server mounts: the workerpool router under /api with the
\* prefix /v1/workerpools, the events router under /api/v1/events.
Routes ==
    {<<"POST", "/api/v1/workerpools/workers">>,
     <<"GET", "/api/v1/workerpools/workers/{worker_id}">>,
     <<"PUT", "/api/v1/workerpools/workers/{worker_id}/heartbeat">>,
     <<"DELETE", "/api/v1/workerpools/workers/{worker_id}">>,
     <<"POST", "/api/v1/workerpools/workers/{worker_id}/claim-session">>,
     <<"POST", "/api/v1/events/">>}

\* The two requests of register_worker; urljoin keeps the path of an endpoint
\* that starts with a slash, whatever the API URL is.
GetWorkerRequest == <<"GET", "/v1/workerpool/workers/{worker_id}">>
RegisterRequest == <<"POST", "/v1/workerpool/workers">>

\* The fields of the body register_worker posts, and the fields WorkerCreate
\* requires (those of WorkerBase that have no default).
RegisterBody == {"name", "work_pool_id", "capacity", "status"}
RequiredWorkerFields == {"name", "work_pool_id", "provider_type"}

\* _make_api_request: a request the server has no route for is answered 404,
\* which the client turns into an error.
make_api_request(request) == IF request \in Routes THEN "response" ELSE "error"

\* The name the worker program registers under (--worker-name).
worker_name == MaxNames

\* The worker client is started with its settings and run() registers it: an
\* existing worker id is looked up, otherwise (or when the lookup fails) a new
\* worker is posted; when registration fails run() returns at once.
\* agent.requested keeps the worker id the client was started with.
run(worker_id, work_pool_id) ==
    /\ agent.pc = "none"
    /\ IF /\ worker_id # NULL
          /\ make_api_request(GetWorkerRequest) # "error"
          /\ worker_id \in DOMAIN workers
       THEN /\ agent' = [pc |-> "registered", worker_id |-> worker_id,
                         work_pool_id |-> work_pool_id, current_load |-> 0,
                         requested |-> worker_id]
            /\ UNCHANGED <<workers, nextWorker>>
       ELSE IF /\ make_api_request(RegisterRequest) # "error"
               /\ RequiredWorkerFields \subseteq RegisterBody
               /\ work_pool_id \in DOMAIN pools
               /\ WorkersNamed(worker_name, work_pool_id) = {}
               /\ nextWorker <= MaxWorkers
       THEN /\ workers' = WithRow(workers, nextWorker,
                                  [name |-> worker_name,
                                   work_pool_id |-> work_pool_id,
                                   status |-> "offline",
                                   capacity |-> MaxCapacity,
                                   current_load |-> 0,
                                   last_heartbeat |-> NoTime,
                                   created_at |-> now])
            /\ nextWorker' = nextWorker + 1
            /\ agent' = [pc |-> "registered", worker_id |-> nextWorker,
                         work_pool_id |-> work_pool_id, current_load |-> 0,
                         requested |-> worker_id]
       ELSE /\ agent' = [pc |-> "exited", worker_id |-> worker_id,
                         work_pool_id |-> work_pool_id, current_load |-> 0,
                         requested |-> worker_id]
            /\ UNCHANGED <<workers, nextWorker>>
    /\ UNCHANGED <<pools, sessions, events, nextPool, nextSession,
                   claim, resp, ev, uss, cs, now, lastSweep, pw,
                   proc, limiter, registry, docker, fleet>>

\* main(): the worker program is started once more, a new BrowsergridWorker
\* built from its arguments.
main ==
    /\ agent.pc \in {"registered", "exited"}
    /\ agent' = NoAgent
    /\ UNCHANGED <<pools, workers, sessions, events, nextPool, nextWorker,
                   nextSession, claim, resp, ev, uss, cs, now, lastSweep, pw,
                   proc, limiter, registry, docker, fleet>>

\* ------------------------------------------------- worker client main loop
\* The client as a process of its own: the server it is pointed at (api_url)
\* answers each request with a response or with an error.
Replies == {"response", "error"}

\* The requests the client keeps in proc.sent: the last MaxSent heartbeats
\* (by the status they carry) and claim-session requests.
Sent(p, request) ==
    LET all == Append(p.sent, request)
    IN  [p EXCEPT !.sent = IF Len(all) > MaxSent THEN Tail(all) ELSE all]

\* _shutdown: a client that has a worker id marks the worker offline, with
\* a heartbeat whose current_load is 0.
shutdown(p) ==
    IF p.worker_id # NULL
    THEN [Sent(p, "offline") EXCEPT !.reported = 0]
    ELSE p

\* The dict claim_session returns for a granted claim, and a dict that names
\* the session by the key handle_session reads.
ClaimedSession(s) == [session_id |-> s, details |-> "session_details"]
AssignedSession(s) == [id |-> s]

\* handle_session: reads session['id'] (a KeyError when the dict has no such
\* key), tells the server the session is assigned, tracks the session with
\* its container id and start time, and tells the server the session is
\* starting and then running.
handle_session_raises(session) == "id" \notin DOMAIN session

\* What handle_session sends for a session, in the order of its statements:
\* two events, the status STARTING, the event of the started browser, the
\* status RUNNING.  Between them stands a comment where provisioning would go.
SessionRequests(s) ==
    <<[session_id |-> s, kind |-> "event", what |-> "session_assigned"],
      [session_id |-> s, kind |-> "status", what |-> "starting"],
      [session_id |-> s, kind |-> "event", what |-> "session_starting"],
      [session_id |-> s, kind |-> "event", what |-> "browser_started"],
      [session_id |-> s, kind |-> "status", what |-> "running"]>>

\* A request is sent and the method that sent it waits, inside
\* _make_api_request, for the reply.  The request a method waits at: the
\* method, its session, the number of the request among those the method
\* sends, and for cleanup_session its reason.
Call(op, session_id, step, reason) ==
    [op |-> op, session_id |-> session_id, step |-> step, reason |-> reason]

\* active_sessions is a dict: p.order has its keys in the order of
\* insertion.  Assigning to a key it holds keeps the key's place.
WithSession(p, session_id, entry) ==
    [p EXCEPT !.active_sessions =
                  [s \in DOMAIN p.active_sessions \cup {session_id} |->
                      IF s = session_id THEN entry
                      ELSE p.active_sessions[s]],
              !.order = IF session_id \in DOMAIN p.active_sessions THEN @
                        ELSE Append(@, session_id)]

\* del active_sessions[session_id] and active_sessions.pop(session_id, None)
WithoutSession(p, session_id) ==
    [p EXCEPT !.active_sessions =
                  [s \in DOMAIN p.active_sessions \ {session_id} |->
                      p.active_sessions[s]],
              !.order = SelectSeq(@, LAMBDA s : s # session_id),
              !.granted = @ \ {session_id}]

\* handle_session from the reply of its request number step - 1 to the send
\* of its request number `step`, where it waits again; after the reply of
\* the last request it returns.  The entry of the session is written, over
\* any entry it has, after the first request returned and before the second
\* is sent.
handle_session(p, session_id, step, time) ==
    LET tracked ==
            IF step = 2
            THEN WithSession(p, session_id,
                             [container_id |-> None, start_time |-> time])
            ELSE p
    IN  IF step > Len(SessionRequests(session_id))
        THEN [p EXCEPT !.call = NoCall]
        ELSE [tracked EXCEPT
                 !.emitted = Append(@, SessionRequests(session_id)[step]),
                 !.call = Call("handle_session", session_id, step, "")]

\* The expiration test of check_sessions_health on one tracked session: the
\* entry's claimed_at, or the current time when the entry has none, plus the
\* timeout of the entry's details, or 30 minutes when it has none, is before
\* the current time.  The clock is read once for the default of claimed_at
\* and once more for the comparison, a moment (less than a minute) later: the
\* whole minute `time` is before that second reading.
DefaultTimeoutMinutes == 30

claimed_at_of(entry, time) ==
    IF "claimed_at" \in DOMAIN entry THEN entry.claimed_at ELSE time

timeout_minutes_of(entry) ==
    IF "details" \in DOMAIN entry THEN entry.details ELSE DefaultTimeoutMinutes

BeforeAMomentAfter(minutes, time) == minutes <= time

has_expired(entry, time) ==
    BeforeAMomentAfter(claimed_at_of(entry, time) + timeout_minutes_of(entry),
                       time)

Max0(n) == IF n < 0 THEN 0 ELSE n

\* check_sessions_health walks list(self.active_sessions.items()), the
\* sessions tracked when it begins with their entries, in the order of the
\* dict, and asks the server for the status of each in turn: p.checking is
\* what is left of the list, the session it waits for at its head.
Items(p) ==
    [i \in 1..Len(p.order) |->
        [session_id |-> p.order[i], session |-> p.active_sessions[p.order[i]]]]

\* The pass at the next session of its list, or at its end.
Checking(p, items) ==
    [p EXCEPT !.checking = items,
              !.call = IF items = <<>> THEN NoCall
                       ELSE Call("check_sessions_health",
                                 items[1].session_id, 1, "")]

\* The session is popped and the load goes down by one, not below 0.
Dropped(p, session_id) ==
    [WithoutSession(p, session_id) EXCEPT
        !.current_load = Max0(p.current_load - 1)]

\* check_sessions_health from its first statement to its first request: the
\* pass keeps in proc what the server reported (ended) and what it sent
\* (pushed).
sessions_health_begin(p) ==
    Checking([p EXCEPT !.ended = {}, !.pushed = <<>>], Items(p))

\* check_sessions_health from a reply to its next request or to its end.
\* The reply to the status request of a session the server reports as
\* completed, failed or expired (ended): the session is dropped.  Any other
\* reply to it: when the expiration test holds the status EXPIRED is sent.
\* The reply to that request: the session is dropped.
sessions_health(p, ended, time) ==
    LET session_id == p.checking[1].session_id
        rest == Tail(p.checking)
    IN  IF p.call.step = 2
        THEN Checking(Dropped(p, session_id), rest)
        ELSE IF ended
        THEN Checking(Dropped([p EXCEPT !.ended = @ \cup {session_id}],
                              session_id), rest)
        ELSE IF has_expired(p.checking[1].session, time)
        THEN [p EXCEPT !.pushed = WithRow(@, session_id, "expired"),
                       !.call.step = 2]
        ELSE Checking(p, rest)

\* A caller hands a session to handle_session of a client that is not
\* running yet, tracked by the client or not: the first request is sent.
handle_session_call(session) ==
    /\ proc.pc = "start"
    /\ proc.call = NoCall
    /\ ~handle_session_raises(session)
    /\ Len(proc.emitted) + Len(SessionRequests(session.id)) <= MaxEmitted
    /\ proc' = handle_session(proc, session.id, 1, proc.time)
    /\ UNCHANGED <<dbvars, limiter, registry, docker, fleet>>

\* The reply of the request handle_session waits for arrives: it sends its
\* next request; after the reply of the last one it returns, in the main
\* loop to the sleep of the pass.
handle_session_next ==
    /\ proc.call.op = "handle_session"
    /\ LET after == handle_session(proc, proc.call.session_id,
                                   proc.call.step + 1, proc.time)
       IN  proc' = IF after.call = NoCall /\ proc.pc = "handle"
                   THEN [after EXCEPT !.pc = "sleep"]
                   ELSE after
    /\ UNCHANGED <<dbvars, limiter, registry, docker, fleet>>

\* cleanup_session: for a tracked session the event and the status of the
\* reason are sent and the entry is deleted; the load is left as it is.  For
\* a session that is not tracked nothing is done.
CleanupReasons == {"completed", "crashed", "timeout", "cancelled"}

CleanupRequests(s, reason) ==
    LET what == CASE reason = "completed" -> "completed"
                  [] reason = "crashed" -> "crashed"
                  [] reason = "timeout" -> "timed_out"
                  [] OTHER -> "terminated"
    IN  <<[session_id |-> s, kind |-> "event",
           what |-> CASE what = "completed" -> "session_completed"
                      [] what = "crashed" -> "session_crashed"
                      [] what = "timed_out" -> "session_timed_out"
                      [] OTHER -> "session_terminated"],
          [session_id |-> s, kind |-> "status", what |-> what]>>

\* cleanup_session of a tracked session from the reply of its request
\* number step - 1 to the send of its request number `step`; after the reply
\* of the last request the entry is deleted and the method returns.
cleanup_session(p, session_id, reason, step) ==
    IF step > Len(CleanupRequests(session_id, reason))
    THEN [WithoutSession(p, session_id) EXCEPT !.call = NoCall]
    ELSE [p EXCEPT
             !.emitted = Append(@, CleanupRequests(session_id, reason)[step]),
             !.call = Call("cleanup_session", session_id, step, reason)]

\* A caller of a client that is not running yet cleans a session up: the
\* event is sent.
cleanup_session_call(session_id, reason) ==
    /\ proc.pc = "start"
    /\ proc.call = NoCall
    /\ session_id \in DOMAIN proc.active_sessions
    /\ Len(proc.emitted) + Len(CleanupRequests(session_id, reason))
           <= MaxEmitted
    /\ proc' = cleanup_session(proc, session_id, reason, 1)
    /\ UNCHANGED <<dbvars, limiter, registry, docker, fleet>>

\* The reply of the request cleanup_session waits for arrives.
cleanup_session_next ==
    /\ proc.call.op = "cleanup_session"
    /\ proc' = cleanup_session(proc, proc.call.session_id, proc.call.reason,
                               proc.call.step + 1)
    /\ UNCHANGED <<dbvars, limiter, registry, docker, fleet>>

\* SIGINT while a caller is inside a method of a client whose run() has not
\* installed its handlers: KeyboardInterrupt is raised at the request the
\* method waits for, the rest of the method is not executed, and the
\* exception, which nothing in the client catches, ends the program.
KeyboardInterrupt ==
    /\ proc.pc = "start"
    /\ proc.call # NoCall
    /\ proc' = [proc EXCEPT !.call = NoCall, !.pc = "interrupted"]
    /\ UNCHANGED <<dbvars, limiter, registry, docker, fleet>>

\* run(), up to register_worker: the signal handlers are installed.
run_begin(worker_id) ==
    /\ proc.pc = "start"
    /\ proc.call = NoCall
    /\ proc' = [proc EXCEPT !.pc = "register", !.worker_id = worker_id]
    /\ UNCHANGED <<dbvars, limiter, registry, docker, fleet>>

\* register_worker and the test of its result in run(): a worker id the
\* server knows is kept, otherwise a worker is posted and its id taken from
\* the response; when that fails run() returns.
register_worker(lookup, post, new_id) ==
    /\ proc.pc = "register"
    /\ proc' = IF proc.worker_id # NULL /\ lookup = "response"
               THEN [proc EXCEPT !.pc = "heartbeat"]
               ELSE IF post = "response"
               THEN [proc EXCEPT !.pc = "heartbeat", !.worker_id = new_id]
               ELSE [proc EXCEPT !.pc = "exited"]
    /\ UNCHANGED <<dbvars, limiter, registry, docker, fleet>>

\* The loop body, first step: send_heartbeat, busy with load and online
\* without.
send_heartbeat ==
    /\ proc.pc = "heartbeat"
    /\ proc' = [(IF proc.worker_id # NULL
                 THEN [Sent(proc, IF proc.current_load > 0 THEN "busy"
                                  ELSE "online")
                          EXCEPT !.reported = proc.current_load]
                 ELSE proc) EXCEPT !.pc = "health"]
    /\ UNCHANGED <<dbvars, limiter, registry, docker, fleet>>

\* Second step: check_sessions_health up to its first request.  When it
\* returns check_and_send_metrics follows, which sends nothing for sessions
\* tracked without a container id.
check_sessions_health ==
    /\ proc.pc = "health"
    /\ proc.call = NoCall
    /\ LET after == sessions_health_begin(proc)
       IN  proc' = IF after.call = NoCall
                   THEN [after EXCEPT !.pc = "claim"]
                   ELSE after
    /\ UNCHANGED <<dbvars, limiter, registry, docker, fleet>>

\* The reply of the request check_sessions_health waits for arrives.
check_sessions_health_next(ended) ==
    /\ proc.pc = "health"
    /\ proc.call.op = "check_sessions_health"
    /\ LET after == sessions_health(proc, ended, proc.time)
       IN  proc' = IF after.call = NoCall
                   THEN [after EXCEPT !.pc = "claim"]
                   ELSE after
    /\ UNCHANGED <<dbvars, limiter, registry, docker, fleet>>

\* Third step: with room for a session the client calls claim_session, which
\* sends a claim-session request when the client has a worker id and its
\* load is below its capacity.  proc.claimed keeps the session the server
\* granted in this pass.
claim_session(reply, s) ==
    /\ proc.pc = "claim"
    /\ IF Cardinality(DOMAIN proc.active_sessions) >= MaxCapacity
          \/ proc.worker_id = NULL
          \/ proc.current_load >= MaxCapacity
       THEN proc' = [proc EXCEPT !.pc = "sleep", !.claimed = NULL]
       ELSE IF reply # "claimed"
       THEN proc' = [Sent(proc, "claim") EXCEPT !.pc = "sleep",
                                                !.claimed = NULL]
       ELSE proc' = [Sent(proc, "claim") EXCEPT !.pc = "handle",
                                                !.claimed = s,
                                                !.granted = @ \cup {s}]
    /\ UNCHANGED <<dbvars, limiter, registry, docker, fleet>>

\* The granted claim is handed to handle_session: an exception of
\* handle_session leaves the loop through the finally of run(), where
\* _shutdown sends its heartbeat and waits for the reply; otherwise the first
\* request of handle_session is sent.
handle_claimed_session ==
    /\ proc.pc = "handle"
    /\ proc.call = NoCall
    /\ IF handle_session_raises(ClaimedSession(proc.claimed))
       THEN proc' = [shutdown(proc) EXCEPT !.pc = "shutdown"]
       ELSE /\ Len(proc.emitted) + Len(SessionRequests(proc.claimed))
                   <= MaxEmitted
            /\ proc' = handle_session(proc, proc.claimed, 1, proc.time)
    /\ UNCHANGED <<dbvars, limiter, registry, docker, fleet>>

\* Last step: time.sleep(poll_interval); with the requests of the pass it
\* takes under a minute, a minute, or longer than the default timeout.
Elapses == {0, 1, DefaultTimeoutMinutes + 1}

sleep(minutes) ==
    /\ proc.pc = "sleep"
    /\ proc.time + minutes <= MaxClientTime
    /\ proc' = [proc EXCEPT !.pc = "heartbeat", !.time = @ + minutes]
    /\ UNCHANGED <<dbvars, limiter, registry, docker, fleet>>

\* _shutdown in the finally of run() has returned: the exception that left
\* the loop leaves run().
run_raises ==
    /\ proc.pc = "shutdown"
    /\ proc' = [proc EXCEPT !.pc = "exited"]
    /\ UNCHANGED <<dbvars, limiter, registry, docker, fleet>>

\* _handle_signal, for SIGINT and SIGTERM once run() has installed it: it
\* clears self.running, calls _shutdown and returns to the interrupted code,
\* which is at one of the requests of the loop or at the request of the
\* finally of run().  The handler reads and writes nothing of the sessions
\* the client tracks.
handle_signal ==
    /\ proc.pc \notin {"start", "interrupted", "exited"}
    /\ proc' = [shutdown(proc) EXCEPT !.running = FALSE]
    /\ UNCHANGED <<dbvars, limiter, registry, docker, fleet>>

\* ------------------------------------------------------------ rate limiting
\* The client addresses, the seconds that pass between two requests, and the
\* options of the middleware: the block time of the settings and a small
\* requests_per_minute.
ClientIps == 1..MaxIps
Elapsed == {0, 1, 59}
block_time == 60
requests_per_minute == MaxRequestsPerMinute

\* The tracked requests of an address that are kept at current_time: the
\* (timestamp, count) pairs less than 60 seconds old.
RecentOrAMinuteOld(reqs, current_time) ==
    SelectSeq(reqs, LAMBDA req : current_time - req[1] <= 60)

Recent(reqs, current_time) ==
    SelectSeq(reqs, LAMBDA req : current_time - req[1] < 60)

\* sum(req[1] for req in ...): the counts of the tracked requests.
RECURSIVE request_count(_)
request_count(reqs) ==
    IF reqs = <<>> THEN 0 ELSE Head(reqs)[2] + request_count(Tail(reqs))

\* A dict with the entry of one key set, and with it deleted.
WithKey(dict, key, value) ==
    [k \in DOMAIN dict \cup {key} |-> IF k = key THEN value ELSE dict[k]]
WithoutKey(dict, key) == [k \in DOMAIN dict \ {key} |-> dict[k]]

\* Middleware.dispatch with RateLimitMiddleware.process_request, for a
\* request of client_ip that arrives elapsed seconds after the one before:
\* an address inside its block time is answered 429; otherwise a block that
\* is over is dropped, the tracked requests are pruned, and the request is
\* answered 429 with a new block when the count has reached the limit, or
\* tracked and passed on to the handler.
process_request(client_ip, elapsed) ==
    LET current_time == limiter.time + elapsed
        answered(l, code) ==
            [l EXCEPT !.time = current_time,
                      !.log = Append(@, [ip |-> client_ip,
                                         time |-> current_time,
                                         code |-> code])]
        unblocked == IF client_ip \in DOMAIN limiter.blocked
                     THEN WithoutKey(limiter.blocked, client_ip)
                     ELSE limiter.blocked
        tracked == IF client_ip \in DOMAIN limiter.requests
                   THEN limiter.requests[client_ip] ELSE <<>>
        recent == Recent(tracked, current_time)
    IN
    /\ Len(limiter.log) < MaxLog
    /\ limiter' =
          IF /\ client_ip \in DOMAIN limiter.blocked
             /\ current_time < limiter.blocked[client_ip]
          THEN answered(limiter, "http429")
          ELSE IF request_count(recent) >= requests_per_minute
          THEN answered([limiter EXCEPT
                            !.requests = WithKey(@, client_ip, recent),
                            !.blocked = WithKey(unblocked, client_ip,
                                                current_time + block_time)],
                        "http429")
          ELSE answered([limiter EXCEPT
                            !.requests =
                                WithKey(@, client_ip,
                                        Append(recent, <<current_time, 1>>)),
                            !.blocked = unblocked],
                        "passed")
    /\ UNCHANGED <<dbvars, proc, registry, docker, fleet>>

\* ------------------------------------------------------------ docker worker
\* Session ids are UUIDs, here strings of UuidLen hex digits; the container id
\* launch_container makes up is "bf_" and the first digits of the session id
\* (ContainerIdLen of them; twelve of thirty-two in the source).
HexDigits == 0..MaxHexDigit
Uuids == [1..UuidLen -> HexDigits]
container_id_of(session_id) == SubSeq(session_id, 1, ContainerIdLen)
ContainerIds == {container_id_of(u) : u \in Uuids}

\* container_map is a dict, session id to container id, kept in insertion
\* order: a sequence of pairs. Assigning to a key it holds keeps the key's
\* place.
KeysOf(map) == {map[i][1] : i \in 1..Len(map)}

SetItem(map, key, value) ==
    IF key \in KeysOf(map)
    THEN [i \in 1..Len(map) |->
             IF map[i][1] = key THEN <<key, value>> ELSE map[i]]
    ELSE Append(map, <<key, value>>)

\* del container_map[session_ids[0]]: the first entry whose value is the
\* container id goes, when there is one.
DelFirstOf(map, container_id) ==
    LET hits == {i \in 1..Len(map) : map[i][2] = container_id}
    IN  IF hits = {} THEN map
        ELSE LET first == CHOOSE i \in hits : \A j \in hits : i <= j
             IN  SubSeq(map, 1, first - 1) \o SubSeq(map, first + 1, Len(map))

\* The methods of a DockerWorker are coroutines. Each runs up to its await of
\* asyncio.sleep, where it is suspended and other coroutines of the event loop
\* run, and goes on when the sleep is over. A suspended call is kept as a
\* task: the method and its argument. WorkerCall(op, arg) is the task of a
\* call of a caller that holds the worker; it concerns no pool.
WorkerMethods == {"start", "stop", "launch_container", "terminate_container",
                  "get_worker_stats", "health_check"}

WorkerCall(op, arg) ==
    [op |-> op, arg |-> arg, top |-> "worker", via |-> "", worker |-> NULL,
     now |-> 0, items |-> <<>>, worker_count |-> 0, online_workers |-> 0,
     yielded |-> 0, running |-> 0]

\* The length of the sleep a method awaits, in tenths of a second.
SleepOf(op) ==
    CASE op = "start" -> 5
      [] op = "stop" -> 5
      [] op = "launch_container" -> 10
      [] op = "terminate_container" -> 5
      [] op = "get_worker_stats" -> 2
      [] op = "health_check" -> 1

\* The tasks are kept in the order their sleeps began. A sleep ends before
\* every sleep that began later and is at least as long; a shorter sleep that
\* began later may end first.
CanWake(tasks, i) ==
    \A j \in 1..(i - 1) : SleepOf(tasks[j].op) > SleepOf(tasks[i].op)

WithoutTask(tasks, i) == SubSeq(tasks, 1, i - 1) \o SubSeq(tasks, i + 1, Len(tasks))

\* What a method does before its await: start and stop set the status;
\* launch_container, terminate_container and get_worker_stats return at once
\* unless the worker is ONLINE.  launch_container reads default_image,
\* docker_network and resource_limits_enabled of the config before its
\* await: a config that is a WorkerConfig and no DockerConfig has none of
\* them, the AttributeError is caught and the method returns an error at
\* once.
Entered(w, op) ==
    CASE op = "start" -> [w EXCEPT !.status = "starting"]
      [] op = "stop" -> [w EXCEPT !.status = "stopping"]
      [] OTHER -> w

Suspends(w, op) ==
    CASE op \in {"start", "stop", "health_check"} -> TRUE
      [] op = "launch_container" ->
             w.status = "online" /\ w.config_class = "DockerConfig"
      [] OTHER -> w.status = "online"

\* What start and stop do after their await.
Started(w) == [w EXCEPT !.status = "online", !.docker_client = TRUE]
Stopped(w) == [w EXCEPT !.status = "offline", !.docker_client = FALSE]

\* launch_container after its await: the container is tracked under the
\* session id and the counter of the stats goes up by one, whatever the
\* status is by then.
Launched(w, session_id) ==
    [w EXCEPT !.container_map =
                  SetItem(@, session_id, container_id_of(session_id)),
              !.running_containers = @ + 1]

\* terminate_container after its await: the entry of the container goes and a
\* positive counter goes down by one.
Terminated(w, container_id) ==
    [w EXCEPT !.container_map = DelFirstOf(@, container_id),
              !.running_containers = IF @ > 0 THEN @ - 1 ELSE @]

\* get_worker_stats after its await: new stats that count the containers of
\* the map.
WithWorkerStats(w) == [w EXCEPT !.running_containers = Len(w.container_map)]

\* health_check after its await: OFFLINE without a docker client, ONLINE
\* with one.
HealthChecked(w) ==
    [w EXCEPT !.status = IF w.docker_client THEN "online" ELSE "offline"]

Resumed(w, op, arg) ==
    CASE op = "start" -> Started(w)
      [] op = "stop" -> Stopped(w)
      [] op = "launch_container" -> Launched(w, arg)
      [] op = "terminate_container" -> Terminated(w, arg)
      [] op = "get_worker_stats" -> WithWorkerStats(w)
      [] op = "health_check" -> HealthChecked(w)

\* The launches among the tasks.
Launching(tasks) ==
    Cardinality({i \in 1..Len(tasks) : tasks[i].op = "launch_container"})

\* A caller calls a method of the worker: the method runs up to its await.
docker_call(op, arg) ==
    /\ Len(docker.tasks) < MaxDockerTasks
    /\ docker' = IF Suspends(docker, op)
                 THEN [Entered(docker, op) EXCEPT
                          !.tasks = Append(@, WorkerCall(op, arg))]
                 ELSE docker
    /\ UNCHANGED <<dbvars, proc, limiter, registry, fleet>>

start == docker_call("start", <<>>)

stop == docker_call("stop", <<>>)

launch_container(session_id) ==
    /\ docker.running_containers + Launching(docker.tasks) < MaxRunning
    /\ session_id \in KeysOf(docker.container_map)
          \/ Len(docker.container_map) + Launching(docker.tasks) < MaxContainers
    /\ docker_call("launch_container", session_id)

terminate_container(container_id) ==
    docker_call("terminate_container", container_id)

get_worker_stats == docker_call("get_worker_stats", <<>>)

health_check == docker_call("health_check", <<>>)

\* The sleep of a suspended call is over and the call runs to its end.
docker_wake(i) ==
    /\ i \in 1..Len(docker.tasks)
    /\ CanWake(docker.tasks, i)
    /\ docker' = [Resumed(docker, docker.tasks[i].op, docker.tasks[i].arg)
                     EXCEPT !.tasks = WithoutTask(docker.tasks, i)]
    /\ UNCHANGED <<dbvars, proc, limiter, registry, fleet>>

\* ------------------------------------------------------------ work pool
\* WorkerConfig: the worker type and concurrency_limit. WorkPoolConfig: the
\* fields scale_workers reads and default_worker_config. The thresholds are
\* the defaults of the schema, as fractions.
scale_up_threshold == <<8, 10>>
scale_down_threshold == <<3, 10>>

WorkerTypes == {"docker"}

\* str() of a member of WorkerType, a plain Enum: the names of the class and
\* of the member, not the value.
StrOfWorkerType(worker_type) ==
    CASE worker_type = "docker" -> "WorkerType.DOCKER"

\* The keys a caller registers a worker class under.
WorkerTypeKeys == WorkerTypes \cup {StrOfWorkerType(t) : t \in WorkerTypes}

\* DockerConfig is the subclass of WorkerConfig with the fields of a docker
\* worker.
ConfigClasses == {"WorkerConfig", "DockerConfig"}

WorkerConfigs ==
    [config_class : ConfigClasses, worker_type : WorkerTypes,
     concurrency_limit : 1..MaxLimit]

WorkPoolConfigs ==
    [auto_scaling_enabled : BOOLEAN,
     min_workers : {MinFleetWorkers},
     max_workers : {MaxFleetWorkers},
     scale_down_delay_minutes : {MaxDelay},
     default_worker_config :
         {c \in WorkerConfigs : /\ c.config_class = "WorkerConfig"
                                /\ c.concurrency_limit = 1}]

\* The configs callers create workers with, besides the default of the pool.
WorkerConfigInputs ==
    {c \in WorkerConfigs : /\ c.config_class = "DockerConfig"
                           /\ c.concurrency_limit = MaxLimit}

FleetWorkerIds == 1..MaxFleetIds

\* The sessions launched on the workers of the pool: those whose id is all
\* zeros.
FleetSessions == {u \in Uuids : \A i \in 1..UuidLen : u[i] = 0}

SumOver(f, S) ==
    LET sum[T \in SUBSET S] ==
            IF T = {} THEN 0
            ELSE LET x == CHOOSE y \in T : TRUE
                 IN  f[x] + sum[T \ {x}]
    IN  sum[S]

\* self.workers is a dict in insertion order, which is the order of the ids
\* here. A worker that left the dict while a suspended call still holds it
\* is kept in f.removed until the last such call is over.
Obj(f, w) == IF w \in DOMAIN f.workers THEN f.workers[w] ELSE f.removed[w]

WithObj(f, w, worker) ==
    IF w \in DOMAIN f.workers
    THEN [f EXCEPT !.workers[w] = worker]
    ELSE [f EXCEPT !.removed[w] = worker]

Held(f) ==
    UNION {{f.tasks[i].worker}
               \cup {f.tasks[i].items[j] : j \in 1..Len(f.tasks[i].items)} :
           i \in 1..Len(f.tasks)}

Collected(f) ==
    [f EXCEPT !.removed = [w \in DOMAIN f.removed \cap Held(f) |-> @[w]]]

\* self.workers.pop(worker_id, None)
Popped(f, worker_id) ==
    IF worker_id \notin DOMAIN f.workers THEN f
    ELSE [f EXCEPT
            !.workers = [w \in DOMAIN f.workers \ {worker_id} |-> @[w]],
            !.removed = WithRow(@, worker_id, f.workers[worker_id])]

OnlineWorkers(f) == {w \in DOMAIN f.workers : f.workers[w].status = "online"}

\* sum(w.config.concurrency_limit for the ONLINE workers) and
\* sum(w.stats.running_containers for all workers).
total_capacity_of(f) ==
    SumOver([w \in DOMAIN f.workers |-> f.workers[w].concurrency_limit],
            OnlineWorkers(f))

total_running_of(f) ==
    SumOver([w \in DOMAIN f.workers |-> f.workers[w].running_containers],
            DOMAIN f.workers)

\* utilization * 100.0 for utilization = running / capacity: a float, kept
\* as the fraction it stands for, in lowest terms (33.33333333333333 is
\* <<100, 3>>); equal quotients give equal floats.
RECURSIVE GCD(_, _)
GCD(a, b) == IF b = 0 THEN a ELSE GCD(b, a % b)

Percent(running, capacity) ==
    LET g == GCD(running * 100, capacity)
    IN  <<(running * 100) \div g, capacity \div g>>

\* A suspended call of the pool: the method of a worker it awaits (op, arg,
\* worker), the method of the pool a caller called (top), for scale_workers
\* the method it called in turn (via) and the time it read (now), and the
\* locals of update_stats.
Task(op, arg, worker, top, via, at) ==
    [WorkerCall(op, arg) EXCEPT !.worker = worker, !.top = top, !.via = via,
                                !.now = at]

\* update_stats, from the worker after `from` in the dict to the next await
\* or to its end. The iterator of the dict raises RuntimeError when the dict
\* has changed its size, and when it finds a worker after it has yielded as
\* many as the dict held at first; get_worker_stats of a worker that is not
\* ONLINE returns its stats at once; at the end the stats of the pool are
\* built from the counts taken at the start, the sum of the loop and the
\* capacity of the workers ONLINE by then.
RECURSIVE stats_loop(_, _, _)
stats_loop(f, t, from) ==
    LET rest == {w \in DOMAIN f.workers : w > from}
        next == CHOOSE w \in rest : \A v \in rest : w <= v
        capacity == total_capacity_of(f)
    IN  IF Cardinality(DOMAIN f.workers) # t.worker_count
        THEN [fleet |-> f, task |-> t, outcome |-> "raised"]
        ELSE IF rest = {}
        THEN [fleet |->
                 [f EXCEPT !.stats =
                     [worker_count |-> t.worker_count,
                      online_workers |-> t.online_workers,
                      total_running_containers |-> t.running,
                      utilization_percent |->
                          IF capacity > 0 THEN Percent(t.running, capacity)
                          ELSE <<0, 1>>]],
              task |-> t, outcome |-> "returned"]
        ELSE IF t.yielded = t.worker_count
        THEN [fleet |-> f, task |-> t, outcome |-> "raised"]
        ELSE IF f.workers[next].status = "online"
        THEN [fleet |-> f,
              task |-> [t EXCEPT !.op = "get_worker_stats", !.arg = <<>>,
                                 !.worker = next, !.yielded = @ + 1],
              outcome |-> "suspended"]
        ELSE stats_loop(f,
                        [t EXCEPT !.yielded = @ + 1,
                                  !.running =
                                      @ + f.workers[next].running_containers],
                        next)

\* update_stats from its first statement.
update_stats(f, t) ==
    stats_loop(f,
               [t EXCEPT !.worker_count = Cardinality(DOMAIN f.workers),
                         !.online_workers = Cardinality(OnlineWorkers(f)),
                         !.yielded = 0,
                         !.running = 0],
               0)

\* Where update_stats leaves its caller: suspended again, or back in
\* create_worker or remove_worker, which return; scale_workers then notes the
\* time it read as last_scale_time and returns (1, 0) or (0, 1), and when the
\* call raised it returns (0, 0).
Settled(r) ==
    LET f == r.fleet
        t == r.task
    IN  IF r.outcome = "suspended"
        THEN [f EXCEPT !.tasks = Append(@, t)]
        ELSE IF t.top # "scale_workers" THEN f
        ELSE IF r.outcome = "raised"
        THEN [f EXCEPT !.result = Some(<<0, 0>>)]
        ELSE [f EXCEPT !.last_scale_time = t.now,
                       !.result = Some(IF t.via = "create_worker"
                                       THEN <<1, 0>> ELSE <<0, 1>>)]

\* list(self.workers.items()): the ids of the workers in the order of the
\* dict.
WorkerItems(f) ==
    LET ids == DOMAIN f.workers
    IN  CHOOSE q \in [1..Cardinality(ids) -> ids] :
            \A i, j \in 1..Cardinality(ids) : i < j => q[i] < q[j]

\* WorkPool.health_check, from the worker before t.items to the next await
\* or to its end: it awaits health_check of each worker of the list it took
\* at its start, in the pool by now or not.  After the last one it reads
\* WorkPoolStatus.ERROR, which the enum does not have, when every worker of
\* a pool with workers is in ERROR, and raises; otherwise it awaits
\* update_stats and raises when it reads WorkPoolStatus.ERROR for its
\* result.
health_loop(f, t) ==
    IF t.items # <<>>
    THEN [f EXCEPT !.tasks =
             Append(@, [t EXCEPT !.op = "health_check", !.arg = <<>>,
                                 !.worker = Head(t.items),
                                 !.items = Tail(t.items)])]
    ELSE IF /\ DOMAIN f.workers # {}
            /\ \A w \in DOMAIN f.workers : f.workers[w].status = "error"
    THEN f
    ELSE Settled(update_stats(f, t))

\* The sleep of task i is over: the method of the worker runs to its end,
\* and the method of the pool that awaited it goes on. After start and after
\* stop (and the pop of the worker) that is update_stats from its start,
\* after get_worker_stats it is the loop of update_stats, after health_check
\* the loop of WorkPool.health_check.
woken(f, i) ==
    LET t == f.tasks[i]
        w == t.worker
        g == WithObj([f EXCEPT !.tasks = WithoutTask(@, i)], w,
                     Resumed(Obj(f, w), t.op, t.arg))
    IN  Collected(
            CASE t.top = "worker" -> g
              [] t.top # "worker" /\ t.op = "start" ->
                     Settled(update_stats(g, t))
              [] t.top # "worker" /\ t.op = "stop" ->
                     Settled(update_stats(Popped(g, w), t))
              [] t.top # "worker" /\ t.op = "health_check" ->
                     health_loop(g, t)
              [] t.top # "worker" /\ t.op = "get_worker_stats" ->
                     Settled(stats_loop(
                         g,
                         [t EXCEPT !.running =
                                       @ + Obj(g, w).running_containers],
                         w)))

\* create_worker: it raises ValueError when no class is registered under
\* str(config.worker_type); otherwise the worker is built, stored under a new
\* id, and its start is awaited.
create_worker_raises(f, config) ==
    StrOfWorkerType(config.worker_type) \notin f.worker_types

created_worker(f, config, top, via, at) ==
    [f EXCEPT
        !.workers =
            WithRow(@, f.next,
                    Entered(NoDocker @@
                               [config_class |-> config.config_class,
                                concurrency_limit |-> config.concurrency_limit],
                           "start")),
        !.next = @ + 1,
        !.tasks = Append(@, Task("start", <<>>, f.next, top, via, at))]

\* remove_worker of a worker the pool holds: its stop is awaited.
removed_worker(f, worker_id, top, via, at) ==
    [f EXCEPT
        !.workers[worker_id] = Entered(@, "stop"),
        !.tasks = Append(@, Task("stop", <<>>, worker_id, top, via, at))]

\* The minutes since the pool scaled last, and the cool-down test of
\* scale_workers.
since_last_scale(f) == f.time - f.last_scale_time

cooling_down(f) == since_last_scale(f) < f.config[1].scale_down_delay_minutes

\* utilization >= threshold and utilization <= threshold, for a utilization
\* of running / capacity, which is 1.0 without capacity.
AtLeast(running, capacity, threshold) ==
    IF capacity > 0
    THEN running * threshold[2] >= threshold[1] * capacity
    ELSE threshold[2] >= threshold[1]

AtMost(running, capacity, threshold) ==
    IF capacity > 0
    THEN running * threshold[2] <= threshold[1] * capacity
    ELSE threshold[2] <= threshold[1]

\* sorted(online workers, key = running_containers)[0]: the sort is stable
\* and the dict is in insertion order.
LeastBusy(f) ==
    CHOOSE w \in OnlineWorkers(f) :
        \A v \in OnlineWorkers(f) :
            \/ f.workers[w].running_containers < f.workers[v].running_containers
            \/ /\ f.workers[w].running_containers = f.workers[v].running_containers
               /\ w <= v

\* scale_workers up to its await, or to its return when it awaits nothing;
\* result is the pair it returns.
scaled(f) ==
    LET config == f.config[1]
        total_workers == Cardinality(DOMAIN f.workers)
        total_capacity == total_capacity_of(f)
        total_running == total_running_of(f)
        none(g) == [g EXCEPT !.result = Some(<<0, 0>>)]
        add(g) ==
            IF create_worker_raises(g, config.default_worker_config)
            THEN none(g)
            ELSE created_worker(g, config.default_worker_config,
                                "scale_workers", "create_worker", f.time)
        measured == [f EXCEPT !.stats.utilization_percent =
                        IF total_capacity > 0
                        THEN Percent(total_running, total_capacity)
                        ELSE <<100, 1>>]
    IN  IF ~config.auto_scaling_enabled \/ cooling_down(f)
        THEN none(f)
        ELSE IF OnlineWorkers(f) = {}
        THEN IF total_workers < config.max_workers THEN add(f) ELSE none(f)
        ELSE IF AtLeast(total_running, total_capacity, scale_up_threshold)
        THEN IF total_workers < config.max_workers
             THEN add(measured)
             ELSE none(measured)
        ELSE IF /\ AtMost(total_running, total_capacity, scale_down_threshold)
                /\ total_workers > config.min_workers
                /\ since_last_scale(f) >= config.scale_down_delay_minutes
                /\ f.workers[LeastBusy(f)].running_containers = 0
        THEN removed_worker(measured, LeastBusy(f),
                            "scale_workers", "remove_worker", f.time)
        ELSE none(measured)

\* WorkPool(pool_id, config): ACTIVE, no worker, no worker type registered,
\* last_scale_time the time of construction.
WorkPool(config) ==
    /\ fleet.config = None
    /\ fleet' = [fleet EXCEPT !.config = Some(config),
                              !.last_scale_time = fleet.time]
    /\ UNCHANGED <<dbvars, proc, limiter, registry, docker>>

\* register_worker_type(worker_type, worker_class) with the class
\* DockerWorker: it is stored under the key given.
register_worker_type(worker_type) ==
    /\ fleet.config # None
    /\ Cardinality(fleet.worker_types) < MaxWorkerTypes
    /\ fleet' = [fleet EXCEPT !.worker_types = @ \cup {worker_type}]
    /\ UNCHANGED <<dbvars, proc, limiter, registry, docker>>

\* WorkPool.create_worker called from outside, with a config of its own or
\* with none, which stands for the default of the pool.
pool_create_worker(worker_config) ==
    /\ fleet.config # None
    /\ fleet.next <= MaxFleetIds
    /\ Len(fleet.tasks) < MaxFleetTasks
    /\ LET config == IF worker_config = None
                     THEN fleet.config[1].default_worker_config
                     ELSE worker_config[1]
       IN  fleet' = IF create_worker_raises(fleet, config) THEN fleet
                    ELSE created_worker(fleet, config, "create_worker", "", 0)
    /\ UNCHANGED <<dbvars, proc, limiter, registry, docker>>

\* WorkPool.remove_worker: False for an id the pool does not hold.
pool_remove_worker(worker_id) ==
    /\ fleet.config # None
    /\ Len(fleet.tasks) < MaxFleetTasks
    /\ fleet' = IF worker_id \in DOMAIN fleet.workers
                THEN removed_worker(fleet, worker_id, "remove_worker", "", 0)
                ELSE fleet
    /\ UNCHANGED <<dbvars, proc, limiter, registry, docker>>

\* WorkPool.update_stats called from outside.
pool_update_stats ==
    /\ fleet.config # None
    /\ Len(fleet.tasks) < MaxFleetTasks
    /\ fleet' = Settled(update_stats(fleet,
                                     Task("", <<>>, NULL, "update_stats",
                                          "", 0)))
    /\ UNCHANGED <<dbvars, proc, limiter, registry, docker>>

\* WorkPool.health_check called from outside.
pool_health_check ==
    /\ fleet.config # None
    /\ Len(fleet.tasks) < MaxFleetTasks
    /\ fleet' = health_loop(fleet,
                            [Task("", <<>>, NULL, "health_check", "", 0)
                                EXCEPT !.items = WorkerItems(fleet)])
    /\ UNCHANGED <<dbvars, proc, limiter, registry, docker>>

scale_workers ==
    /\ fleet.config # None
    /\ Len(fleet.tasks) < MaxFleetTasks
    /\ scaled(fleet).next <= MaxFleetIds + 1
    /\ fleet' = scaled(fleet)
    /\ UNCHANGED <<dbvars, proc, limiter, registry, docker>>

\* The workers of the pool are handed to its callers, which call their
\* methods: the method runs up to its await.
worker_call(w, op, arg) ==
    /\ w \in DOMAIN fleet.workers
    /\ Len(fleet.tasks) < MaxFleetTasks
    /\ fleet' = IF Suspends(fleet.workers[w], op)
                THEN [fleet EXCEPT
                         !.workers[w] = Entered(@, op),
                         !.tasks = Append(@, Task(op, arg, w, "worker", "", 0))]
                ELSE fleet
    /\ UNCHANGED <<dbvars, proc, limiter, registry, docker>>

LaunchingOn(w) ==
    Cardinality({i \in 1..Len(fleet.tasks) :
                    /\ fleet.tasks[i].op = "launch_container"
                    /\ fleet.tasks[i].worker = w})

worker_launch_container(w, session_id) ==
    /\ w \in DOMAIN fleet.workers
    /\ fleet.workers[w].running_containers + LaunchingOn(w) < MaxFleetRunning
    /\ session_id \in KeysOf(fleet.workers[w].container_map)
          \/ Len(fleet.workers[w].container_map) + LaunchingOn(w)
                 < MaxFleetContainers
    /\ worker_call(w, "launch_container", session_id)

worker_terminate_container(w, container_id) ==
    worker_call(w, "terminate_container", container_id)

\* The sleep of a suspended call of the pool or of one of its workers is
\* over.
fleet_wake(i) ==
    /\ i \in 1..Len(fleet.tasks)
    /\ CanWake(fleet.tasks, i)
    /\ fleet' = woken(fleet, i)
    /\ UNCHANGED <<dbvars, proc, limiter, registry, docker>>

\* datetime.utcnow() moves on by a minute.
utcnow_advances ==
    /\ fleet.time < MaxFleetTime
    /\ fleet' = [fleet EXCEPT !.time = @ + 1]
    /\ UNCHANGED <<dbvars, proc, limiter, registry, docker>>

\* ------------------------------------------------------------ app registry
\* The installed apps of the settings.
INSTALLED_APPS == {"sessions", "webhooks", "workerpool"}

\* An app config object: load_app_config makes one per app name absent from
\* the dict, and populate() empties the dict first, so the name and the
\* number of populate() calls before it tell the objects apart.
AppConfig(r, app_name) == <<app_name, r.populated>>

\* load_app_config on the fields of the registry: the config the dict holds
\* for the name is kept, otherwise a new one is stored.
loaded(r, app_name) ==
    IF app_name \in DOMAIN r.app_configs THEN r
    ELSE [r EXCEPT !.app_configs =
             [n \in DOMAIN r.app_configs \cup {app_name} |->
                 IF n = app_name THEN AppConfig(r, app_name)
                 ELSE r.app_configs[n]]]

\* populate(installed_apps): the dict is emptied, every installed app is
\* loaded, apps_ready is set.
populated(r, installed_apps) ==
    [r EXCEPT !.app_configs = [n \in installed_apps |->
                                  <<n, r.populated + 1>>],
              !.populated = @ + 1,
              !.apps_ready = TRUE]

\* get_app_configs(): the values of the dict.
get_app_configs(r) == {r.app_configs[n] : n \in DOMAIN r.app_configs}

\* One more ready() call received by each of the configs.
Called(calls, configs) ==
    [c \in DOMAIN calls \cup configs |->
        (IF c \in DOMAIN calls THEN calls[c] ELSE 0)
        + (IF c \in configs THEN 1 ELSE 0)]

\* AppRegistry.ready() on the fields of the registry: nothing when
\* ready_called is set; otherwise ready() of every app config, then
\* ready_called is set.
readied_every_time(r) ==
    [r EXCEPT !.calls = Called(@, get_app_configs(r)),
              !.ready_called = TRUE]

readied(r) ==
    IF r.ready_called THEN r
    ELSE [r EXCEPT !.calls = Called(@, get_app_configs(r)),
                   !.ready_called = TRUE]

populate(installed_apps) ==
    /\ registry.populated < MaxPopulate
    /\ registry' = populated(registry, installed_apps)
    /\ UNCHANGED <<dbvars, proc, limiter, docker, fleet>>

load_app_config(app_name) ==
    /\ registry' = loaded(registry, app_name)
    /\ UNCHANGED <<dbvars, proc, limiter, docker, fleet>>

ready ==
    /\ registry.invoked < MaxReady
    /\ registry' = [readied(registry) EXCEPT !.invoked = @ + 1]
    /\ UNCHANGED <<dbvars, proc, limiter, docker, fleet>>

\* ------------------------------------------------------------ specifications
\* No request is between two of its round trips.
Quiet == Inflight = 0

\* The status and load writers, one request at a time: every handler runs to
\* its end before the next request is taken.
Next ==
    \/ Quiet /\ nextPool <= StatusPools /\ create_work_pool(nextPool, "active", NoDefaults)
    \/ Quiet /\ \E p \in PoolIds : \E id \in WorkerIds : create_worker(id, id, p, "online", MaxCapacity)
    \/ Quiet /\ \E w \in WorkerIds, hb \in HeartbeatInputs :
                   update_worker_heartbeat(w, hb[1], hb[2])
    \/ Quiet /\ \E w \in WorkerIds : claim_begin(w)
    \/ \E w \in WorkerIds : claim_select(w)
    \/ \E w \in WorkerIds : claim_commit(w)
    \/ Quiet /\ nextSession <= StatusSessions
             /\ \E p \in PoolIds \cup {NULL} : create_session_insert(p, EmptyBody)
    \/ assign_session_to_work_pool
    \/ Quiet /\ \E s \in SessionIds, e \in EventInputs : create_event_begin(s, e)
    \/ create_event_commit
    \/ Quiet /\ \E s \in SessionIds, st \in StatusInputs :
                   update_session_status_begin(s, st)
    \/ update_session_status_worker
    \/ update_session_status_commit
    \/ Quiet /\ \E s \in SessionIds, o \in ProviderOutcomes :
                   provision_session(s, o)

Spec == Init /\ [][Next]_vars

\* The references between the tables, one request at a time: creation,
\* placement, claim, event application and the two deletes.
NextRefs ==
    \/ Quiet /\ create_work_pool(nextPool, "active", NoDefaults)
    \/ Quiet /\ \E p \in PoolIds, force \in BOOLEAN : delete_work_pool(p, force)
    \/ Quiet /\ \E p \in PoolIds : \E id \in WorkerIds : create_worker(id, id, p, "online", MaxCapacity)
    \/ Quiet /\ \E w \in WorkerIds, force \in BOOLEAN : delete_worker(w, force)
    \/ Quiet /\ \E w \in WorkerIds : claim_begin(w)
    \/ \E w \in WorkerIds : claim_select(w)
    \/ \E w \in WorkerIds : claim_commit(w)
    \/ Quiet /\ \E p \in PoolIds \cup {NULL} : create_session_insert(p, EmptyBody)
    \/ assign_session_to_work_pool
    \/ Quiet /\ \E s \in SessionIds, e \in EventInputs : create_event_begin(s, e)
    \/ create_event_commit

SpecRefs == Init /\ [][NextRefs]_vars

\* Deletes without force: the requests of SpecRefs, every delete request with
\* force=false.
NextDelete ==
    \/ Quiet /\ create_work_pool(nextPool, "active", NoDefaults)
    \/ Quiet /\ \E p \in PoolIds : delete_work_pool(p, FALSE)
    \/ Quiet /\ \E p \in PoolIds : \E id \in WorkerIds : create_worker(id, id, p, "online", MaxCapacity)
    \/ Quiet /\ \E w \in WorkerIds : delete_worker(w, FALSE)
    \/ Quiet /\ \E w \in WorkerIds : claim_begin(w)
    \/ \E w \in WorkerIds : claim_select(w)
    \/ \E w \in WorkerIds : claim_commit(w)
    \/ Quiet /\ \E p \in PoolIds \cup {NULL} : create_session_insert(p, EmptyBody)
    \/ assign_session_to_work_pool
    \/ Quiet /\ \E s \in SessionIds, e \in EventInputs : create_event_begin(s, e)
    \/ create_event_commit

SpecDelete == Init /\ [][NextDelete]_vars

\* The claim endpoint under overlapping requests: up to MaxInflight requests
\* are between two of their round trips while others commit.
NextOverlap ==
    \/ create_work_pool(nextPool, "active", NoDefaults)
    \/ \E p \in PoolIds, force \in BOOLEAN : delete_work_pool(p, force)
    \/ \E p \in PoolIds : \E id \in WorkerIds : create_worker(id, id, p, "offline", MaxCapacity)
    \/ \E w \in WorkerIds, hb \in HeartbeatInputs :
          update_worker_heartbeat(w, hb[1], hb[2])
    \/ \E w \in WorkerIds, force \in BOOLEAN : delete_worker(w, force)
    \/ \E w \in WorkerIds : claim_begin(w)
    \/ \E w \in WorkerIds : claim_select(w)
    \/ \E w \in WorkerIds : claim_commit(w)
    \/ \E p \in PoolIds \cup {NULL} : create_session_insert(p, EmptyBody)
    \/ assign_session_to_work_pool

SpecOverlap == Init /\ [][NextOverlap]_vars

\* The claim endpoint, one request at a time, for workers of every capacity:
\* the load of a worker is the load its claims gave it.
NextClaim ==
    \/ Quiet /\ create_work_pool(nextPool, "active", NoDefaults)
    \/ Quiet /\ \E p \in PoolIds, c \in 1..MaxCapacity :
                   \E id \in WorkerIds : create_worker(id, id, p, "online", c)
    \/ Quiet /\ \E w \in WorkerIds : claim_begin(w)
    \/ \E w \in WorkerIds : claim_select(w)
    \/ \E w \in WorkerIds : claim_commit(w)
    \/ Quiet /\ \E p \in PoolIds \cup {NULL} : create_session_insert(p, EmptyBody)
    \/ assign_session_to_work_pool

SpecClaim == Init /\ [][NextClaim]_vars

\* Placement and pool defaults: pools of either status and of every default
\* set, sessions of every body, with and without a requested pool, and events
\* that can arrive between the insert of a session and its placement.
NextPlace ==
    \/ \E status \in PoolStatusInputs, defaults \in DefaultsInputs :
          create_work_pool(nextPool, status, defaults)
    \/ \E p \in PoolIds : \E id \in WorkerIds : create_worker(id, id, p, "online", MaxCapacity)
    \/ \E p \in PoolIds \cup {NULL}, body \in BodyInputs :
          create_session_insert(p, body)
    \/ assign_session_to_work_pool
    \/ apply_pool_defaults_commit
    \/ \E s \in SessionIds : create_event_begin(s, "session_starting")
    \/ create_event_commit

SpecPlace == Init /\ [][NextPlace]_vars

\* The happy path: an operator creates a pool, registers workers and sends
\* their heartbeats, a client creates chrome sessions, and the worker client
\* is started, for an existing worker or for a new one. Every step that can
\* be taken is taken in the end.
NextAgent ==
    \/ Quiet /\ nextPool <= StatusPools /\ create_work_pool(nextPool, "active", NoDefaults)
    \/ Quiet /\ \E p \in PoolIds : \E id \in WorkerIds : create_worker(id, id, p, "offline", MaxCapacity)
    \/ Quiet /\ \E w \in WorkerIds : \E hb \in HeartbeatInputs :
                   update_worker_heartbeat(w, hb[1], hb[2])
    \/ Quiet /\ \E p \in PoolIds \cup {NULL} : create_session_insert(p, ChromeBody)
    \/ assign_session_to_work_pool
    \/ Quiet /\ \E w \in WorkerIds \cup {NULL} : \E p \in PoolIds : run(w, p)

SpecAgent == Init /\ [][NextAgent]_vars /\ WF_vars(NextAgent)

\* Registration on its own: an operator creates pools and workers and sends
\* heartbeats, and the worker program is started again and again, with the
\* id of an existing worker, of none, or with no id.
NextRegister ==
    \/ nextPool <= StatusPools /\ create_work_pool(nextPool, "active", NoDefaults)
    \/ \E name \in WorkerNames, p \in PoolIds, c \in 1..MaxCapacity :
           \E id \in WorkerIds : create_worker(id, name, p, "offline", c)
    \/ \E w \in WorkerIds : \E hb \in HeartbeatInputs :
           update_worker_heartbeat(w, hb[1], hb[2])
    \/ \E w \in WorkerIds \cup {NULL} : \E p \in PoolIds : run(w, p)
    \/ main

SpecRegister == Init /\ [][NextRegister]_vars

\* Pool names under overlapping requests: creates and updates, up to
\* MaxInflight of them between their name query and their commit.
NextNames ==
    \/ \E i \in PoolWriters, name \in PoolNames, status \in PoolStatusInputs :
          create_work_pool_begin(i, name, status)
    \/ \E i \in PoolWriters : create_work_pool_commit(i)
    \/ \E i \in PoolWriters, p \in PoolIds, name \in PoolNames,
          status \in PoolStatusInputs \cup {NoStatus} :
          update_work_pool_begin(i, p, name, status)
    \/ \E i \in PoolWriters : update_work_pool_commit(i)

SpecNames == Init /\ [][NextNames]_vars

\* The two writers of current_load under overlapping requests: claim-session
\* and update_session_status to COMPLETED, each between its round trips while
\* the other commits.
NextLocks ==
    \/ Quiet /\ nextPool <= StatusPools
             /\ create_work_pool(nextPool, "active", NoDefaults)
    \/ Quiet /\ \E p \in PoolIds : \E id \in WorkerIds : create_worker(id, id, p, "online", MaxCapacity)
    \/ Quiet /\ \E p \in PoolIds \cup {NULL} : create_session_insert(p, EmptyBody)
    \/ assign_session_to_work_pool
    \/ \E w \in WorkerIds : claim_begin(w)
    \/ \E w \in WorkerIds : claim_select(w)
    \/ \E w \in WorkerIds : claim_commit(w)
    \/ \E s \in SessionIds : update_session_status_begin(s, "completed")
    \/ update_session_status_worker
    \/ update_session_status_commit

SpecLocks == Init /\ [][NextLocks]_vars

\* The worker program: main() builds the client and calls run(), against a
\* server that may answer any of its requests, with signals arriving at any
\* point of the loop.  run() is the only caller of handle_session, and
\* nothing calls cleanup_session.
NextLoop ==
    \/ \E w \in WorkerIds \cup {NULL} : run_begin(w)
    \/ \E lookup \in Replies, post \in Replies, w \in WorkerIds :
          register_worker(lookup, post, w)
    \/ send_heartbeat
    \/ check_sessions_health
    \/ \E reply \in Replies \cup {"claimed"}, s \in SessionIds :
          claim_session(reply, s)
    \/ handle_claimed_session
    \/ \E minutes \in Elapses : sleep(minutes)
    \/ run_raises
    \/ handle_signal

SpecLoop == Init /\ [][NextLoop]_vars /\ WF_vars(NextLoop)

\* The methods of BrowsergridWorker as code that imports the class may call
\* them, one by one, on a client that is not running, beside run(): only
\* here does a session enter active_sessions.
NextMethods ==
    \/ NextLoop
    \/ \E s \in SessionIds : handle_session_call(AssignedSession(s))
    \/ handle_session_next
    \/ \E s \in SessionIds, reason \in CleanupReasons :
          cleanup_session_call(s, reason)
    \/ cleanup_session_next
    \/ KeyboardInterrupt
    \/ \E ended \in BOOLEAN : check_sessions_health_next(ended)

SpecMethods == Init /\ [][NextMethods]_vars /\ WF_vars(NextMethods)

\* The session_events table: sessions, the events posted for them, and the
\* deletion of single events, one request at a time.
NextEvents ==
    \/ Quiet /\ \E p \in PoolIds \cup {NULL} : create_session_insert(p, EmptyBody)
    \/ assign_session_to_work_pool
    \/ Quiet /\ \E s \in SessionIds, e \in EventInputs : create_event_begin(s, e)
    \/ create_event_commit
    \/ Quiet /\ \E i \in 1..MaxEvents : delete_event(i)

SpecEvents == Init /\ [][NextEvents]_vars

\* The rate limiter: requests of every address, at every distance in time.
NextLimit ==
    \E client_ip \in ClientIps, elapsed \in Elapsed :
        process_request(client_ip, elapsed)

SpecLimit == Init /\ [][NextLimit]_vars

\* The app registry: populate, load_app_config and ready in any order.
NextApps ==
    \/ \E installed_apps \in SUBSET INSTALLED_APPS : populate(installed_apps)
    \/ \E app_name \in INSTALLED_APPS : load_app_config(app_name)
    \/ ready

SpecApps == Init /\ [][NextApps]_vars

\* A DockerWorker: its methods are called in any order, with any session id
\* and container id, up to MaxDockerTasks of the calls suspended at a time.
NextDocker ==
    \/ start
    \/ stop
    \/ \E session_id \in Uuids : launch_container(session_id)
    \/ \E container_id \in ContainerIds : terminate_container(container_id)
    \/ get_worker_stats
    \/ health_check
    \/ \E i \in 1..MaxDockerTasks : docker_wake(i)

SpecDocker == Init /\ [][NextDocker]_vars

\* A WorkPool: it is built, a worker class is registered under a key, workers
\* are created and removed by its callers and by scale_workers, the stats
\* are updated, containers come and go on the workers, the clock moves, and
\* up to MaxFleetTasks of the calls are suspended at a time.
NextScale ==
    \/ \E config \in WorkPoolConfigs : WorkPool(config)
    \/ \E worker_type \in WorkerTypeKeys : register_worker_type(worker_type)
    \/ \E worker_config \in {None} \cup {Some(c) : c \in WorkerConfigInputs} :
           pool_create_worker(worker_config)
    \/ \E w \in FleetWorkerIds : pool_remove_worker(w)
    \/ pool_update_stats
    \/ pool_health_check
    \/ scale_workers
    \/ \E w \in FleetWorkerIds, session_id \in FleetSessions :
           worker_launch_container(w, session_id)
    \/ \E w \in FleetWorkerIds, container_id \in ContainerIds :
           worker_terminate_container(w, container_id)
    \/ \E i \in 1..MaxFleetTasks : fleet_wake(i)
    \/ utcnow_advances

SpecScale == Init /\ [][NextScale]_vars

\* Placement next to claims: pools of either status with and without
\* defaults, sessions with and without a requested pool, and claim-session
\* requests between the round trips of a placement.
NextBind ==
    \/ Quiet /\ \E status \in PoolStatusInputs,
                   defaults \in {NoDefaults, RichDefaults} :
                   create_work_pool(nextPool, status, defaults)
    \/ Quiet /\ \E p \in PoolIds : \E id \in WorkerIds : create_worker(id, id, p, "online", MaxCapacity)
    \/ \E p \in PoolIds \cup {NULL}, body \in {EmptyBody, BareBody} :
          create_session_insert(p, body)
    \/ assign_session_to_work_pool
    \/ apply_pool_defaults_commit
    \/ \E w \in WorkerIds : claim_begin(w)
    \/ \E w \in WorkerIds : claim_select(w)
    \/ \E w \in WorkerIds : claim_commit(w)

SpecBind == Init /\ [][NextBind]_vars

\* Liveness: the clock, the sweeper, registrations and the heartbeats of
\* running agents.
RunningHeartbeats == {hb \in HeartbeatInputs : hb[1] # "offline"}

NextLive ==
    \/ create_work_pool(nextPool, "active", NoDefaults)
    \/ \E p \in PoolIds, st \in WorkerStatusInputs :
          \E id \in WorkerIds : create_worker(id, id, p, st, MaxCapacity)
    \/ \E w \in WorkerIds, hb \in RunningHeartbeats :
          update_worker_heartbeat(w, hb[1], hb[2])
    \/ Sweep
    \/ Tick

SpecLive == Init /\ [][NextLive]_vars

\* ------------------------------------------------------------ properties
\* The rank of a status in the lifecycle.
Rank(status) == hierarchy(status)

\* C1: in every reachable state every worker has
\* 0 <= current_load <= capacity.
C1_LoadWithinCapacity ==
    \A w \in DOMAIN workers :
        /\ 0 <= workers[w].current_load
        /\ workers[w].current_load <= workers[w].capacity

\* C2: of overlapping claims on one unbound PENDING session only one is
\* granted: a claim never answers claimed:true for a session that another
\* worker already holds.
C2_ClaimGrantsUnboundSession ==
    [][\A w \in WorkerIds :
          (claim_commit(w) /\ resp'.claimed)
              => sessions[claim[w].sess].worker_id = NULL]_vars

\* C3: the rank of a session's status never decreases from one state to the
\* next, whichever writer of the status takes the step.
C3_StatusRankNeverDecreases ==
    [][\A s \in DOMAIN sessions :
          s \in DOMAIN sessions'
              => Rank(sessions'[s].status) >= Rank(sessions[s].status)]_vars

\* C4: the step that takes a session bound to worker w into a terminal status
\* lowers w.current_load by exactly 1 (not below 0) and changes no other
\* worker's current_load.
C4_TerminalReleasesLoad ==
    [][\A s \in DOMAIN sessions :
          LET w == sessions[s].worker_id
          IN  (/\ sessions[s].status \notin TerminalStatuses
               /\ sessions'[s].status \in TerminalStatuses
               /\ w \in DOMAIN workers)
                  => /\ workers'[w].current_load =
                            (IF workers[w].current_load > 0
                             THEN workers[w].current_load - 1 ELSE 0)
                     /\ \A v \in DOMAIN workers \ {w} :
                            workers'[v].current_load = workers[v].current_load]_vars

\* C5: a claim that answers claimed:true with session s to worker w leaves,
\* right after its commit, s.worker_id = w and s.work_pool_id = w.work_pool_id.
C5_ClaimBindsInWorkersPool ==
    [][\A w \in WorkerIds :
          (claim_commit(w) /\ resp'.claimed)
              => /\ w \in DOMAIN workers'
                 /\ sessions'[resp'.session_id].worker_id = w
                 /\ sessions'[resp'.session_id].work_pool_id =
                        workers'[w].work_pool_id]_vars

\* A terminal event applied to a session already in the status it infers.
RepeatedTerminalEvent ==
    /\ create_event_commit
    /\ sessions[ev.session_id].status \in TerminalStatuses
    /\ get_status_from_event(ev.event) = sessions[ev.session_id].status

\* Session s has a status that no event row of s infers: a status update
\* wrote it.
StatusFromUpdate(s) ==
    \A i \in 1..Len(events) :
        events[i].session_id = s
            => get_status_from_event(events[i].event) # sessions[s].status

\* A step of update_session_status called a second time with the terminal
\* status an earlier status update gave the session.
RepeatedTerminalUpdate ==
    \/ \E s \in DOMAIN sessions :
          /\ sessions[s].status \in TerminalStatuses
          /\ StatusFromUpdate(s)
          /\ update_session_status_begin(s, sessions[s].status)
    \/ /\ uss.before \in TerminalStatuses
       /\ uss.before = uss.status
       /\ StatusFromUpdate(uss.session_id)
       /\ update_session_status_worker \/ update_session_status_commit

\* C6: applying the same terminal event, or the same terminal status update,
\* to a session that is already in that terminal status changes no session
\* status and no worker's current_load.
C6_RepeatedTerminalIsNoOp ==
    [][(RepeatedTerminalEvent \/ RepeatedTerminalUpdate)
          => /\ \A s \in DOMAIN sessions :
                   sessions'[s].status = sessions[s].status
             /\ \A w \in DOMAIN workers :
                   workers'[w].current_load = workers[w].current_load]_vars

\* C7: a heartbeat of worker w leaves w.current_load, every session and every
\* other worker unchanged, whatever load its body carries.
C7_HeartbeatKeepsLoad ==
    [][\A w \in WorkerIds, hb \in HeartbeatInputs :
          update_worker_heartbeat(w, hb[1], hb[2])
              => /\ workers'[w].current_load = workers[w].current_load
                 /\ sessions' = sessions
                 /\ \A v \in DOMAIN workers \ {w} : workers'[v] = workers[v]]_vars

\* C8: every session bound to a worker is bound to a pool, and its worker is
\* a worker of that pool.
C8_BoundSessionInWorkersPool ==
    \A s \in DOMAIN sessions :
        sessions[s].worker_id # NULL
            => /\ sessions[s].work_pool_id # NULL
               /\ sessions[s].worker_id \in DOMAIN workers
               /\ workers[sessions[s].worker_id].work_pool_id =
                      sessions[s].work_pool_id

\* C8, its case: a session is bound to a worker after an event was applied and
\* a pool and a worker of another pool were deleted.
C8_BoundAfterDeletes ==
    /\ \E s \in DOMAIN sessions : sessions[s].worker_id # NULL
    /\ Len(events) > 0
    /\ Cardinality(DOMAIN pools) < nextPool - 1
    /\ Cardinality(DOMAIN workers) < nextWorker - 1

\* The time after which a silent worker is due to be OFFLINE: five minutes
\* after its last heartbeat, or after its registration when it never sent one.
Deadline(w) ==
    (IF workers[w].last_heartbeat = NoTime
     THEN workers[w].created_at
     ELSE workers[w].last_heartbeat) + OfflineAfterMinutes

\* C9: every worker silent for five minutes, a worker that never sent a
\* heartbeat included, is OFFLINE once one sweep interval has passed after
\* that deadline.
C9_SilentWorkerOffline ==
    \A w \in DOMAIN workers :
        now > Deadline(w) + SweepInterval => workers[w].status = "offline"

\* A claim-session call of an existing worker that is neither ONLINE nor BUSY.
InactiveClaim(w) ==
    /\ w \in DOMAIN workers
    /\ workers[w].status \notin ActiveWorkerStatuses
    /\ claim_begin(w)

FullWorkerClaim(w) ==
    /\ IsActiveWorker(w)
    /\ workers[w].current_load >= workers[w].capacity
    /\ claim_begin(w)

\* C11: the claim of an active worker with current_load >= capacity is
\* answered {claimed:false, "Worker at capacity"} and changes no session and
\* no worker, whether or not its pool holds PENDING sessions.
C11_FullWorkerClaimsNothing ==
    [][\A w \in WorkerIds :
          FullWorkerClaim(w)
              => /\ resp' = NotClaimed(w, "Worker at capacity")
                 /\ UNCHANGED <<sessions, workers, claim>>]_vars

\* C11, its case: a worker whose claims filled it got the at-capacity answer
\* while its pool holds an unbound PENDING session.
C11_FullBesidePending ==
    /\ resp.kind = "ok"
    /\ resp.reason = "Worker at capacity"
    /\ resp.worker \in DOMAIN workers
    /\ workers[resp.worker].current_load = workers[resp.worker].capacity
    /\ \E s \in DOMAIN sessions : sessions[s].worker_id = resp.worker
    /\ PendingSessionsOf(workers[resp.worker].work_pool_id) # {}

\* C12: a granted claim returns the oldest unbound PENDING session of the
\* worker's pool.  Session ids are handed out in creation order, so the
\* oldest session is the one of the smallest id.
C12_ClaimTakesOldestPending ==
    [][\A w \in WorkerIds :
          (claim_commit(w) /\ resp'.claimed)
              => \A s \in PendingSessionsOf(workers[w].work_pool_id) :
                    resp'.session_id <= s]_vars

\* C13: across the events applied to a session one after another the rank
\* of its status never decreases, and an event whose inferred status has no
\* strictly greater rank than the current status leaves the status unchanged.
C13_EventsNeverLowerRank ==
    [][/\ \A s \in DOMAIN sessions :
             Rank(sessions'[s].status) >= Rank(sessions[s].status)
       /\ (/\ create_event_commit
           /\ \/ get_status_from_event(ev.event) = NoStatus
              \/ Rank(get_status_from_event(ev.event))
                     <= Rank(sessions[ev.session_id].status))
              => sessions' = sessions]_vars

\* C13, its case: an event of a lower rank was applied after one of a higher
\* rank, and the session has the status of the earlier event.
C13_LaterEventOfLowerRank ==
    \E i, j \in 1..Len(events) :
        /\ i < j
        /\ events[i].session_id = events[j].session_id
        /\ get_status_from_event(events[j].event) # NoStatus
        /\ Rank(get_status_from_event(events[j].event))
               < Rank(get_status_from_event(events[i].event))
        /\ sessions[events[i].session_id].status =
               get_status_from_event(events[i].event)

\* C14: posting an event for an existing session appends exactly one event
\* row, the row of that event, and changes no worker's current_load; when the
\* event does not move the status (session_starting on a COMPLETED session)
\* the sessions are left as they are.  Posting an event for a session that
\* does not exist is answered 404 and appends no row.
C14_EveryEventIsRecorded ==
    [][/\ create_event_commit
             => /\ Len(events') = Len(events) + 1
                /\ SubSeq(events', 1, Len(events)) = events
                /\ events'[Len(events')] =
                       [session_id |-> ev.session_id, event |-> ev.event]
                /\ \A w \in DOMAIN workers :
                       workers'[w].current_load = workers[w].current_load
                /\ (/\ ev.event = "session_starting"
                    /\ sessions[ev.session_id].status = "completed")
                       => sessions' = sessions
       /\ \A s \in SessionIds, e \in EventInputs :
             create_event_begin(s, e)
                 => /\ events' = events
                    /\ s \notin DOMAIN sessions
                           => /\ resp' = EventAnswer(s, "http404")
                              /\ UNCHANGED <<ev, sessions, workers>>]_vars

\* C14, its case: a session_starting event was recorded for a session that
\* was COMPLETED already, and the session is still COMPLETED.
C14_StartingRecordedOnCompleted ==
    /\ resp.kind = "http201"
    /\ Len(events) = 2
    /\ events[1].event = "session_completed"
    /\ events[2] = [session_id |-> events[1].session_id,
                    event |-> "session_starting"]
    /\ sessions[events[1].session_id].status = "completed"
    /\ sessions[events[1].session_id].worker_id # NULL

\* C15: applying the pool defaults merge is idempotent: for every session row
\* and every pool row, merging the pool's defaults into the session a second
\* time leaves the session exactly as it was after the first merge.
C15_MergeIsIdempotent ==
    \A s \in DOMAIN sessions : \A p \in DOMAIN pools :
        apply_pool_defaults(apply_pool_defaults(sessions[s], pools[p]), pools[p])
            = apply_pool_defaults(sessions[s], pools[p])

\* A session the merge has changed: placed in a pool, it holds the proxy and
\* the environment of the pool's defaults, and a second merge changes nothing.
C15_MergedSessionStaysMerged ==
    \E s \in DOMAIN sessions : \E p \in DOMAIN pools :
        /\ cs.pc = "idle"
        /\ sessions[s].work_pool_id = p
        /\ sessions[s].proxy # None
        /\ sessions[s].proxy = pools[p].default_proxy
        /\ sessions[s].environment = pools[p].default_environment
        /\ apply_pool_defaults(sessions[s], pools[p]) = sessions[s]

\* The configuration fields of a session and the pool column that holds the
\* default of each.
ConfigFields ==
    {"browser", "version", "headless", "operating_system", "screen", "proxy",
     "resource_limits", "environment"}

DefaultOf(pool, field) ==
    IF field = "version" THEN pool.default_browser_version
    ELSE IF field = "browser" THEN pool.default_browser
    ELSE IF field = "headless" THEN pool.default_headless
    ELSE IF field = "operating_system" THEN pool.default_operating_system
    ELSE IF field = "screen" THEN pool.default_screen
    ELSE IF field = "proxy" THEN pool.default_proxy
    ELSE IF field = "resource_limits" THEN pool.default_resource_limits
    ELSE pool.default_environment

\* The create_session request in flight ends in this step with its session
\* placed in pool p.
PlacementEnds(p) ==
    /\ cs.pc # "idle"
    /\ cs'.pc = "idle"
    /\ sessions'[cs.session_id].work_pool_id = p
    /\ p \in DOMAIN pools

\* C16: after placement of a session into a pool, every field the client set
\* explicitly keeps its value and every field the client left unset takes the
\* pool's non-null default (a session created with only browser=chrome and
\* placed in a pool with default_browser=firefox and default_resource_limits
\* memory 2G ends with browser=chrome and resource_limits memory 2G).
C16_ExplicitKeptUnsetTakesDefault ==
    [][\A p \in PoolIds : PlacementEnds(p) =>
          \A field \in ConfigFields :
             /\ cs.body[field] # None =>
                   sessions'[cs.session_id][field]
                       = create_from_schema(SessionCreate(cs.body))[field]
             /\ (cs.body[field] = None /\ DefaultOf(pools[p], field) # None) =>
                   sessions'[cs.session_id][field] = DefaultOf(pools[p], field)
      ]_vars

\* The placement of the create_session request in flight must be rejected:
\* its session is not PENDING, or it names a pool that does not exist or is
\* not ACTIVE.
MustReject ==
    /\ cs.pc = "created"
    /\ \/ sessions[cs.session_id].status # "pending"
       \/ /\ cs.pool # NULL
          /\ \/ cs.pool \notin DOMAIN pools
             \/ pools[cs.pool].status # "active"

\* C17: Place rejects and leaves the session's work_pool_id and every other
\* field unchanged when the session is not PENDING, or when a requested pool
\* id is given and that pool does not exist or is not ACTIVE (a PAUSED pool
\* never receives a newly placed session).
C17_PlaceRejectsAndLeavesSession ==
    [][(MustReject /\ cs'.pc # "created") =>
          /\ cs' = IdleCs
          /\ sessions' = sessions
      ]_vars

\* After rejected placements: a session that left PENDING before it was
\* placed and a PENDING session that asked for a PAUSED pool are both unbound
\* with no request in flight.
C17_UnboundAfterRejection ==
    /\ cs.pc = "idle"
    /\ \E s \in DOMAIN sessions :
          sessions[s].status = "starting" /\ sessions[s].work_pool_id = NULL
    /\ \E s \in DOMAIN sessions :
          sessions[s].status = "pending" /\ sessions[s].work_pool_id = NULL
    /\ DOMAIN pools = PoolIds
    /\ \A p \in DOMAIN pools : pools[p].status = "paused"

\* The happy path is set up: pool 1 is ACTIVE, worker 1 is registered in it
\* with the full capacity, online with load 0, chrome session 1 is bound to
\* the pool, and the worker client has been started for worker 1.
HappyPathSetUp ==
    /\ 1 \in DOMAIN pools /\ pools[1].status = "active"
    /\ 1 \in DOMAIN workers
    /\ workers[1].work_pool_id = 1
    /\ workers[1].capacity = MaxCapacity
    /\ workers[1].status = "online"
    /\ workers[1].current_load = 0
    /\ 1 \in DOMAIN sessions
    /\ sessions[1].browser = Some("chrome")
    /\ sessions[1].work_pool_id = 1
    /\ agent.pc # "none"
    /\ agent.worker_id = 1

\* The end of the happy path: session 1 is RUNNING on worker 1, whose load
\* is 1.
HappyPathDone ==
    /\ 1 \in DOMAIN sessions
    /\ sessions[1].status = "running"
    /\ sessions[1].worker_id = 1
    /\ 1 \in DOMAIN workers
    /\ workers[1].current_load = 1

\* C18: in the happy-path run (an ACTIVE pool, a worker w1 registered in it
\* and heartbeating online with load 0, one chrome session created) the
\* session is bound to the pool, w1's claim is granted, and after the worker
\* client emits SESSION_STARTING and BROWSER_STARTED the session is RUNNING
\* with worker_id = w1 and w1.current_load = 1.
C18_HappyPathEndsRunning == HappyPathSetUp ~> HappyPathDone

\* The statuses of a session that keeps its pool from being deleted.
PoolHoldingStatuses == {"pending", "starting", "running"}

\* C19: deleting a work pool with force=false is refused, leaving the pool,
\* its workers and all sessions unchanged, whenever at least one session in
\* PENDING, STARTING or RUNNING references the pool (every delete request of
\* SpecDelete has force=false).
C19_PoolWithLiveSessionsStays ==
    [][\A p \in DOMAIN pools :
          (\E s \in DOMAIN sessions :
              /\ sessions[s].work_pool_id = p
              /\ sessions[s].status \in PoolHoldingStatuses)
          => /\ p \in DOMAIN pools'
             /\ pools'[p] = pools[p]
      ]_vars

\* C20: deleting a worker with force=false is refused, leaving the worker and
\* all sessions unchanged, whenever the worker's current_load > 0 (every
\* delete request of SpecDelete has force=false; a step that keeps the pools
\* and removes a worker is a delete of that worker).
C20_LoadedWorkerStays ==
    [][\A w \in DOMAIN workers :
          (workers[w].current_load > 0 /\ pools' = pools)
          => w \in DOMAIN workers'
      ]_vars

\* C21: after a work pool is deleted, every session that referenced it still
\* exists with work_pool_id = null, every worker of that pool no longer
\* exists, and no session keeps a worker_id that names a deleted worker.
C21_PoolDeleteNullsAndCascades ==
    [][\A p \in DOMAIN pools : p \notin DOMAIN pools' =>
          /\ \A s \in DOMAIN sessions :
                /\ s \in DOMAIN sessions'
                /\ sessions[s].work_pool_id = p
                      => sessions'[s].work_pool_id = NULL
          /\ \A w \in WorkersOfPool(p) : w \notin DOMAIN workers'
          /\ \A s \in DOMAIN sessions' :
                sessions'[s].worker_id # NULL
                    => sessions'[s].worker_id \in DOMAIN workers'
      ]_vars

\* After the delete of the pool of a granted session: the session the last
\* claim granted is still there with neither reference, the worker it was
\* granted to is gone, and no pool is left.
C21_GrantedSessionOutlivesPool ==
    /\ resp.claimed
    /\ resp.worker \notin DOMAIN workers
    /\ resp.session_id \in DOMAIN sessions
    /\ sessions[resp.session_id].work_pool_id = NULL
    /\ sessions[resp.session_id].worker_id = NULL
    /\ DOMAIN pools = {}

\* Pool request i ends in this step.
PoolRequestEnds(i) == pw'[i] # pw[i] /\ pw'[i].pc = "idle"

\* The request asks for a name another pool holds: a create of a taken name,
\* or an update of an existing pool that changes its name to a taken one.
AsksTakenName(request) ==
    IF request.op = "create"
    THEN PoolsNamed(request.name) # {}
    ELSE /\ request.pool \in DOMAIN pools
         /\ request.name # request.before.name
         /\ PoolsNamed(request.name) \ {request.pool} # {}

\* C22: after any sequence, concurrent ones included, of work pool creates
\* and updates no two pools have the same name; a create with a taken name,
\* or an update that renames a pool to a name held by another pool, is
\* rejected with a conflict (409) and leaves all pools unchanged.
C22_PoolNamesUniqueByConflict ==
    /\ [](\A p \in DOMAIN pools : PoolsNamed(pools[p].name) = {p})
    /\ [][\A i \in PoolWriters :
            (PoolRequestEnds(i) /\ AsksTakenName(pw'[i]))
                => /\ pw'[i].answer = "http409"
                   /\ pools' = pools
         ]_vars

\* C23: every mutator of the contended cells takes its locks in the order
\* (session row, worker row), so no interleaving of Claim and terminal status
\* application overwrites the other's update of current_load: every write of
\* a worker's current_load is one more (a claim) or one less (a terminal
\* status) than the value the row holds when the write commits.
C23_LoadUpdatesNotOverwritten ==
    [][\A w \in DOMAIN workers :
          (w \in DOMAIN workers'
             /\ workers'[w].current_load # workers[w].current_load)
          => IF claim[w].pc = "session" /\ claim'[w].pc = "idle"
             THEN workers'[w].current_load = workers[w].current_load + 1
             ELSE workers'[w].current_load = workers[w].current_load - 1
      ]_vars

\* The last heartbeat or claim-session request the client has sent.
LastSent == IF proc.sent = <<>> THEN "none" ELSE proc.sent[Len(proc.sent)]

\* C24: after SIGINT or SIGTERM the worker client sends a heartbeat that marks
\* the worker OFFLINE, then leaves its main loop and exits: once the signal is
\* handled no ONLINE or BUSY heartbeat and no claim-session request follows,
\* and the process ends.
C24_SignalEndsTheClient ==
    /\ [][(proc.running /\ ~proc'.running /\ proc.worker_id # NULL)
             => proc'.sent # <<>> /\ proc'.sent[Len(proc'.sent)] = "offline"
         ]_vars
    /\ [](~proc.running => LastSent \in {"none", "offline"})
    /\ (~proc.running ~> proc.pc = "exited")

\* The tracked sessions whose timeout has elapsed: the client took them
\* longer ago than the timeout of their resource limits, the schema's
\* default here.
Overdue ==
    {s \in DOMAIN proc.active_sessions :
        proc.active_sessions[s].start_time + DefaultTimeoutMinutes < proc.time}

\* The reconcile pass of the main loop is done with session s of its list.
ReconcilePass(s) ==
    /\ proc.pc = "health"
    /\ proc.checking # <<>>
    /\ proc.checking[1].session_id = s
    /\ proc'.checking # proc.checking

\* C25: for every active session of the client, once claimed_at plus
\* resource_limits.timeout_minutes is before now, the next reconcile pass
\* pushes SESSION_TIMED_OUT for it and removes it from the active set, so a
\* running session whose timeout has elapsed eventually is TIMED_OUT.
C25_OverdueSessionsTimeOut ==
    /\ [][\A s \in Overdue :
             ReconcilePass(s) =>
                 /\ s \notin DOMAIN proc'.active_sessions
                 /\ s \notin proc'.ended
                      => /\ s \in DOMAIN proc'.pushed
                         /\ proc'.pushed[s] = "timed_out"
         ]_vars
    /\ \A s \in SessionIds :
          (s \in Overdue /\ proc.pc # "exited")
              ~> (s \notin DOMAIN proc.active_sessions \/ proc.pc = "exited")

\* C26: when a container launch through direct provisioning fails (the
\* backend raises, or the container starts without a usable port mapping),
\* the session ends FAILED and the current_load of the worker it is bound to
\* goes down by one: a failed launch never leaves the session non-terminal.
C26_FailedLaunchFailsSession ==
    [][\A s \in DOMAIN sessions :
          (/\ resp' # resp
           /\ resp'.kind = "not_provisioned"
           /\ resp'.session_id = s)
          => /\ sessions'[s].status = "failed"
             /\ \A w \in DOMAIN workers :
                   (sessions[s].worker_id = w /\ workers[w].current_load > 0)
                       => workers'[w].current_load = workers[w].current_load - 1
      ]_vars

\* C27 as stated: session events are append-only; no step removes or changes
\* a recorded event row while its session exists.
C27_EventsAppendOnly ==
    [][\A i \in 1..Len(events) :
          events[i].session_id \in DOMAIN sessions'
              => /\ Len(events') >= i
                 /\ events'[i] = events[i]
      ]_vars

\* C27: a recorded event row is never changed, and the only operation that
\* removes one is delete_event, answered 204, which removes the row it names
\* and leaves every other row as it was; every other step leaves the rows
\* alone or appends one.
C27_EventsGoOnlyByDeleteEvent ==
    [][\/ events' = events
       \/ \E row \in [session_id : SessionIds, event : EventInputs] :
             events' = Append(events, row)
       \/ /\ resp'.kind = "http204"
          /\ \E i \in 1..Len(events) :
                /\ Len(events') = Len(events) - 1
                /\ \A j \in 1..Len(events') :
                      events'[j] = IF j < i THEN events[j] ELSE events[j + 1]
      ]_vars

\* An event of a session has been deleted while the session exists, and the
\* other event of that session is still recorded.
C27_OneEventDeleted ==
    /\ resp.kind = "http204"
    /\ resp.session_id \in DOMAIN sessions
    /\ Len(events) = MaxEvents - 1
    /\ \A i \in 1..Len(events) : events[i].session_id = resp.session_id

\* The answered requests of the limiter, from its log only.  The limit is hit
\* for request k when the requests of its address passed on less than 60
\* seconds before it number requests_per_minute or more.
PassedBefore(k) ==
    {i \in 1..(k - 1) : /\ limiter.log[i].ip = limiter.log[k].ip
                        /\ limiter.log[i].code = "passed"
                        /\ limiter.log[k].time - limiter.log[i].time < 60}

LimitHit(k) == Cardinality(PassedBefore(k)) >= requests_per_minute

\* Request k starts a block window when it hits the limit outside every
\* window started before it; it is inside a window for the 60 seconds that
\* follow the request that started one.
BlockStarts ==
    LET starts[k \in 0..Len(limiter.log)] ==
            IF k = 0 THEN {}
            ELSE IF /\ LimitHit(k)
                    /\ \A i \in starts[k - 1] :
                          \/ limiter.log[i].ip # limiter.log[k].ip
                          \/ limiter.log[k].time >= limiter.log[i].time + 60
                 THEN starts[k - 1] \cup {k}
                 ELSE starts[k - 1]
    IN  starts[Len(limiter.log)]

InBlockWindow(k) ==
    \E i \in BlockStarts :
        /\ i < k
        /\ limiter.log[i].ip = limiter.log[k].ip
        /\ limiter.log[k].time < limiter.log[i].time + 60

\* C28: per client address, once the requests passed on within the last 60
\* seconds number requests_per_minute, the next request and every request of
\* that address during the 60 seconds that follow it is answered 429 and not
\* passed to the handler; every other request, of another address or after
\* the block window, is passed on.
C28_BlockedForAMinute ==
    \A k \in 1..Len(limiter.log) :
        limiter.log[k].code =
            IF LimitHit(k) \/ InBlockWindow(k) THEN "http429" ELSE "passed"

\* An address hit the limit and was answered 429, was answered 429 again 59
\* seconds later, and was served one second after that, while the other
\* address was served inside the window.
C28_ServedAfterTheWindow ==
    \E k \in 1..Len(limiter.log) :
        /\ k + 3 <= Len(limiter.log)
        /\ k \in BlockStarts
        /\ limiter.log[k + 1].ip # limiter.log[k].ip
        /\ limiter.log[k + 1].code = "passed"
        /\ limiter.log[k + 1].time < limiter.log[k].time + 60
        /\ limiter.log[k + 2].ip = limiter.log[k].ip
        /\ limiter.log[k + 2].time = limiter.log[k].time + 59
        /\ limiter.log[k + 2].code = "http429"
        /\ limiter.log[k + 3].ip = limiter.log[k].ip
        /\ limiter.log[k + 3].time = limiter.log[k].time + 60
        /\ limiter.log[k + 3].code = "passed"

\* A call of AppRegistry.ready().
ReadyCall == registry'.invoked = registry.invoked + 1

\* C29: AppRegistry.ready() calls ready() on every registered app config
\* exactly once in total: the first call calls ready() of each app config
\* once and sets ready_called, every later call calls none, and so no app
\* config ever receives a second ready().
C29_ReadyOnceInTotal ==
    /\ [][(ReadyCall /\ ~registry.ready_called)
             => /\ registry'.ready_called
                /\ DOMAIN registry'.calls = get_app_configs(registry)
                /\ \A c \in get_app_configs(registry) : registry'.calls[c] = 1
         ]_vars
    /\ [][(ReadyCall /\ registry.ready_called)
             => registry'.calls = registry.calls]_vars
    /\ [](\A c \in DOMAIN registry.calls : registry.calls[c] = 1)
    /\ [](~registry.ready_called => registry.calls = <<>>)

\* ready() has been called more than once on a registry that held two app
\* configs at the first call.
C29_ReadyCalledAgain ==
    /\ registry.invoked > 1
    /\ registry.ready_called
    /\ Cardinality(DOMAIN registry.calls) = 2
    /\ DOMAIN registry.calls = get_app_configs(registry)

\* A step of Place: the placement of create_session's request, or the commit
\* of the pool defaults that follows it.
PlaceStep == cs.pc \in {"created", "placed"} /\ cs' # cs

\* C30: Place, whether it binds a pool or fails and with or without a
\* requested pool, never writes a session's worker_id and never changes a
\* worker's current_load or status; a session gets a worker only in the
\* commit of a claim-session request of that worker.
C30_PlaceBindsNoWorker ==
    /\ [][PlaceStep =>
             /\ workers' = workers
             /\ \A s \in DOMAIN sessions :
                   sessions'[s].worker_id = sessions[s].worker_id
         ]_vars
    /\ [][\A s \in DOMAIN sessions :
             (s \in DOMAIN sessions'
                /\ sessions'[s].worker_id # sessions[s].worker_id
                /\ sessions'[s].worker_id # NULL)
             => /\ claim[sessions'[s].worker_id].pc = "session"
                /\ claim'[sessions'[s].worker_id].pc = "idle"
         ]_vars

\* A session has been placed in a pool that has a worker which holds an
\* earlier session, and has taken the proxy of the pool's defaults; the
\* placed session has no worker.
C30_PlacedBesideAClaimedSession ==
    /\ cs = IdleCs
    /\ DOMAIN sessions = SessionIds
    /\ \E s1, s2 \in DOMAIN sessions, w \in DOMAIN workers :
          /\ sessions[s1].worker_id = w
          /\ workers[w].current_load = 1
          /\ s2 > s1
          /\ sessions[s2].work_pool_id = workers[w].work_pool_id
          /\ sessions[s2].worker_id = NULL
          /\ sessions[s2].status = "pending"
          /\ sessions[s2].proxy # None

\* The score of a pool as the specification has it: ten for each available
\* worker, less one for each session of the pool that has not ended.
NonTerminalStatuses == {"pending", "starting", "running"}

NonTerminalSessionsOf(p) ==
    {s \in DOMAIN sessions :
        /\ sessions[s].work_pool_id = p
        /\ sessions[s].status \in NonTerminalStatuses}

SpecifiedScore(p) ==
    10 * Cardinality(AvailableWorkersOf(p))
        - Cardinality(NonTerminalSessionsOf(p))

\* The pools Place considers for session s, and the one it is to bind: of the
\* highest score, and of the lowest id among those.
ConsideredPools(s) ==
    {p \in DOMAIN pools :
        /\ pools[p].status = "active"
        /\ Compatible(s, p)
        /\ AvailableWorkersOf(p) # {}}

SpecifiedPool(s) ==
    CHOOSE p \in ConsideredPools(s) :
        \A q \in ConsideredPools(s) :
            \/ SpecifiedScore(q) < SpecifiedScore(p)
            \/ SpecifiedScore(q) = SpecifiedScore(p) /\ p <= q

\* Place runs for a pending session created without a requested pool.
PlacesUnrequested ==
    /\ cs.pc = "created" /\ cs' # cs
    /\ cs.pool = NULL
    /\ sessions[cs.session_id].status = "pending"

\* C31: when no pool is requested, Place considers exactly the ACTIVE pools
\* compatible with the session that have an available worker; it binds the
\* session to the considered pool of the highest score 10 x available workers
\* - non-terminal sessions (PENDING, STARTING, RUNNING), the lowest pool id on
\* a tie, and binds nothing when no pool is considered.
C31_BestPoolLowestIdOnTie ==
    [][PlacesUnrequested =>
          sessions'[cs.session_id].work_pool_id =
              IF ConsideredPools(cs.session_id) = {} THEN NULL
              ELSE SpecifiedPool(cs.session_id)
      ]_vars

\* The events of a starting session the client has emitted for session s,
\* in order, and the places in proc.emitted where provisioning of the browser
\* of s succeeded.
StartEvents == <<"session_assigned", "session_starting", "browser_started">>

EventsIn(emitted, s) ==
    SelectSeq(emitted,
              LAMBDA r : /\ r.session_id = s
                         /\ r.kind = "event"
                         /\ r.what \in {StartEvents[i] : i \in 1..3})

EmittedEvents(s) == EventsIn(proc.emitted, s)

\* The loop is done with the session the server granted in this pass.
HandlePass == proc.pc = "handle" /\ proc'.pc # "handle"

ProvisionedBefore(i) ==
    \E j \in 1..(i - 1) :
        /\ proc.emitted[j].session_id = proc.emitted[i].session_id
        /\ proc.emitted[j].kind = "provision"
        /\ proc.emitted[j].what = "succeeded"

ClaimPass == proc.pc = "claim" /\ proc'.pc # "claim"

ClaimSent ==
    /\ ClaimPass
    /\ proc'.sent # proc.sent
    /\ "claim" \in {proc'.sent[i] : i \in 1..Len(proc'.sent)}

\* C33: in every state of the client's loop the sessions it holds as active
\* number at most its capacity: it sends a claim only while it holds fewer
\* than its capacity, and every session the server grants it is added to the
\* active set.
C33_ActiveWithinCapacity ==
    /\ [](Cardinality(DOMAIN proc.active_sessions) <= MaxCapacity)
    /\ [][ClaimSent =>
             Cardinality(DOMAIN proc.active_sessions) < MaxCapacity]_vars
    /\ [][HandlePass
             => proc.claimed \in DOMAIN proc'.active_sessions]_vars

\* One call of register_worker, and the worker rows it added.
RegisterCall == agent.pc = "none" /\ agent'.pc # "none"

RegisteredRows == DOMAIN workers' \ DOMAIN workers

\* The worker records a registration leaves for the client: the rows under
\* the worker id the client holds when register_worker has returned.
RecordsOfAgent == {w \in DOMAIN workers' : w = agent'.worker_id}

\* C34: registration is idempotent by worker id: a registration started with
\* the id of an existing worker adds no worker row and keeps that id; every
\* registration, the first and any later one, leaves exactly one worker
\* record for the client; a registration adds a worker only when none with
\* the given id exists, and changes no other row.
C34_RegisterIdempotentById ==
    [][RegisterCall =>
          /\ agent'.requested \in DOMAIN workers
                => /\ workers' = workers
                   /\ agent'.worker_id = agent'.requested
          /\ RegisteredRows # {} => agent'.requested \notin DOMAIN workers
          /\ RegisteredRows \subseteq RecordsOfAgent
          /\ Cardinality(RecordsOfAgent) = 1
          /\ \A w \in DOMAIN workers : workers'[w] = workers[w]]_vars

\* The sessions a worker holds: bound to it and not yet in a terminal status.
HeldSessionsOf(w) ==
    {s \in DOMAIN sessions :
        /\ sessions[s].worker_id = w
        /\ sessions[s].status \in NonTerminalStatuses}

\* C35: in every reachable state of the server every worker's current_load
\* is the number of sessions bound to it whose status is PENDING, STARTING
\* or RUNNING, whatever claims, heartbeats, events and status updates came
\* before.
C35_LoadCountsHeldSessions ==
    \A w \in DOMAIN workers :
        workers[w].current_load = Cardinality(HeldSessionsOf(w))

\* The session row has every default of its pool that applies to it.
DefaultsMerged(s) ==
    sessions[s].work_pool_id \in DOMAIN pools
        => apply_pool_defaults(sessions[s], pools[sessions[s].work_pool_id])
               = sessions[s]

\* C36: to a claimer placement and the merge of the pool's defaults are one
\* step: a claim-session request is never granted a session that is bound to
\* its pool while the defaults of that pool are not yet merged into it,
\* however the requests of placement and claim interleave.
C36_ClaimedSessionHasDefaults ==
    [][\A w \in WorkerIds :
          (claim_commit(w) /\ resp'.claimed)
              => DefaultsMerged(claim[w].sess)]_vars

\* The heartbeat of a loop pass of a registered client, and the heartbeat
\* of _shutdown, which the signal handler and the finally of run() send.
HeartbeatPass ==
    /\ proc.pc = "heartbeat"
    /\ proc'.pc = "health"
    /\ proc.worker_id # NULL

ShutdownHeartbeat ==
    /\ proc.worker_id # NULL
    /\ \/ handle_signal
       \/ proc.pc = "handle" /\ proc'.pc = "shutdown"

\* C37: at every heartbeat the client sends, the current_load it reports is
\* the number of sessions it has claimed and not yet removed from its active
\* set, and the status of a heartbeat of the loop is busy with such a
\* session and online without.
C37_HeartbeatReportsActiveSessions ==
    /\ [][HeartbeatPass =>
             /\ proc'.reported = Cardinality(proc.granted)
             /\ proc'.sent[Len(proc'.sent)] =
                    IF Cardinality(proc.granted) > 0 THEN "busy"
                    ELSE "online"]_vars
    /\ [][ShutdownHeartbeat =>
             proc'.reported = Cardinality(proc.granted)]_vars

\* A session whose placement failed: its create_session request is over and
\* it has no pool.
Unplaced(s) ==
    /\ s \in DOMAIN sessions
    /\ sessions[s].work_pool_id = NULL
    /\ ~(cs.pc # "idle" /\ cs.session_id = s)

\* No claim-session request is granted a session that has no pool.
UnplacedNeverClaimed ==
    \A w \in WorkerIds :
        (claim_commit(w) /\ resp'.claimed) => ~Unplaced(claim[w].sess)

\* C38 as stated: placement is attempted only inside session creation, so a
\* session whose placement failed keeps work_pool_id = null and the status
\* PENDING after every later operation, and no claim-session request is ever
\* granted it, even with a compatible ACTIVE pool that has an available
\* worker.
C38_UnplacedStaysPending ==
    [][/\ \A s \in DOMAIN sessions :
             Unplaced(s) => /\ sessions'[s].work_pool_id = NULL
                            /\ sessions'[s].worker_id = NULL
                            /\ sessions'[s].status = "pending"
       /\ UnplacedNeverClaimed]_vars

\* C38 as the code has it: a session whose placement failed keeps
\* work_pool_id = null and no worker after every later operation and no
\* claim-session request is ever granted it; its status is written only by an
\* event posted for it or by a status update of it.
C38_UnplacedStaysUnbound ==
    [][/\ \A s \in DOMAIN sessions :
             Unplaced(s) =>
                /\ sessions'[s].work_pool_id = NULL
                /\ sessions'[s].worker_id = NULL
                /\ sessions'[s].status # sessions[s].status
                      => \/ create_event_commit /\ ev.session_id = s
                         \/ \E st \in StatusInputs :
                                update_session_status_begin(s, st)
       /\ UnplacedNeverClaimed]_vars

\* A session was left without a pool; an ACTIVE pool with an available worker
\* has appeared since, and that worker's claim-session request was answered
\* that there is no pending session.
C38_UnplacedBesideAnIdleWorker ==
    \E s \in DOMAIN sessions, p \in DOMAIN pools :
        /\ Unplaced(s)
        /\ sessions[s].status = "pending"
        /\ pools[p].status = "active"
        /\ Compatible(s, p)
        /\ resp.worker \in AvailableWorkersOf(p)
        /\ resp.reason = "No pending sessions"

\* C39: for a DockerWorker, after any sequence of start, launch_container,
\* terminate_container and stop, stats.running_containers is the number of
\* containers tracked in container_map and is never negative; a
\* launch_container or terminate_container called while the worker is not
\* ONLINE changes neither.
C39_RunningContainersAreTracked ==
    /\ [](/\ docker.running_containers = Len(docker.container_map)
          /\ docker.running_containers >= 0)
    /\ [][(/\ docker.status # "online"
           /\ \/ \E session_id \in Uuids : launch_container(session_id)
              \/ \E container_id \in ContainerIds :
                     terminate_container(container_id))
             => /\ docker'.running_containers = docker.running_containers
                /\ docker'.container_map = docker.container_map]_vars

\* The number of workers of the pool, and whether it is within the bounds of
\* the config.
PoolSize == Cardinality(DOMAIN fleet.workers)

WithinWorkerBounds(n) ==
    /\ fleet.config[1].min_workers <= n
    /\ n <= fleet.config[1].max_workers

\* A step of a call of scale_workers: the call up to its first await, or the
\* rest of it after one of its awaits.
ScaleWorkersStep ==
    \/ scale_workers
    \/ \E i \in 1..MaxFleetTasks :
           /\ i \in 1..Len(fleet.tasks)
           /\ fleet.tasks[i].top = "scale_workers"
           /\ fleet_wake(i)

\* C40: for a WorkPool with auto-scaling enabled whose number of workers is
\* within [min_workers, max_workers], every call of scale_workers adds or
\* removes at most one worker, keeps the number within those bounds, removes
\* only a worker that is ONLINE with zero running containers when the call
\* chooses it, and changes nothing when less than scale_down_delay_minutes
\* have passed since the pool scaled last.
C40_ScaleWorkersStaysInBounds ==
    /\ [][(ScaleWorkersStep /\ fleet.config[1].auto_scaling_enabled) =>
             LET added == DOMAIN fleet'.workers \ DOMAIN fleet.workers
                 removed == DOMAIN fleet.workers \ DOMAIN fleet'.workers
             IN  /\ Cardinality(added) + Cardinality(removed) <= 1
                 /\ WithinWorkerBounds(PoolSize)
                       => WithinWorkerBounds(Cardinality(DOMAIN fleet'.workers))
          ]_vars
    /\ [][(scale_workers /\ fleet.config[1].auto_scaling_enabled) =>
             /\ \A i \in 1..Len(fleet'.tasks) :
                    (i > Len(fleet.tasks) /\ fleet'.tasks[i].op = "stop")
                       => LET w == fleet.workers[fleet'.tasks[i].worker]
                          IN  w.status = "online" /\ w.running_containers = 0
             /\ since_last_scale(fleet)
                      < fleet.config[1].scale_down_delay_minutes
                   => /\ fleet'.workers = fleet.workers
                      /\ fleet'.tasks = fleet.tasks
                      /\ fleet'.stats = fleet.stats
                      /\ fleet'.last_scale_time = fleet.last_scale_time]_vars

=============================================================================
